---- MODULE Spec2Model ----
(***************************************************************************)
(* A model of the ipvx IPv4 library: the dotted-decimal validator/parser/  *)
(* formatter, the mask and CIDR algebra and the address arithmetic.        *)
(*                                                                         *)
(* Representation.                                                         *)
(*  - A JavaScript number holding an integer is a pair <<hi, lo>> with     *)
(*    lo \in 0..2^16-1 and value hi * 2^16 + lo (hi may be negative), as   *)
(*    TLC's integers are too narrow for 2^32 - 1.  0xFFFFFFFF is           *)
(*    <<65535, 65535>>, -1 is <<-1, 65535>>.                               *)
(*  - A JavaScript string is the sequence of its UTF-16 code units, so     *)
(*    "1.2" is <<49, 46, 50>>.                                             *)
(*  - A call that throws yields a record with ok = FALSE and the error's   *)
(*    class and message; a call that returns yields ok = TRUE and val.     *)
(* The library is a set of pure functions: the state machine draws the     *)
(* arguments of one call at a time and records the call and its outcome.   *)
(***************************************************************************)
EXTENDS Integers, Sequences, FiniteSets, TLC

VARIABLES op, args, res

vars == <<op, args, res>>

-----------------------------------------------------------------------------
(* Bounds of the model *)

\* strings handed to the validator have at most this many dot-separated parts
MaxParts == 5

\* sampled addresses lie within this distance of a boundary of the address space
MaxDelta == 2

\* splitSubnet is called with newPrefix - currentPrefix at most this
MaxSplitBits == 3

\* a mask drawn differs from a contiguous mask in at most this many bits
MaxFlips == 1

\* a list of addresses drawn has at most this many elements
MaxListLen == 3

-----------------------------------------------------------------------------
(* JavaScript numbers and 32-bit operators *)

Half == 2^16

\* the number hi * 2^16 + lo, normalised
Num(h, l) == <<h + (l \div Half), l % Half>>

\* a small integer literal
Lit(i) == Num(0, i)

Add(a, b) == Num(a[1] + b[1], a[2] + b[2])

Sub(a, b) == Num(a[1] - b[1], a[2] - b[2])

\* i * a for a small integer i
Mul(i, a) == Num(i * a[1], i * a[2])

Lt(a, b) == a[1] < b[1] \/ (a[1] = b[1] /\ a[2] < b[2])

Gt(a, b) == Lt(b, a)

\* ECMAScript ToUint32 and ToInt32 of an integer-valued number
ToUint32(a) == <<a[1] % Half, a[2]>>

ToInt32(a) == LET u == ToUint32(a) IN IF u[1] >= 2^15 THEN <<u[1] - Half, u[2]>> ELSE u

RECURSIVE And16(_, _)
And16(x, y) == IF x = 0 \/ y = 0 THEN 0
               ELSE (x % 2) * (y % 2) + 2 * And16(x \div 2, y \div 2)

RECURSIVE Or16(_, _)
Or16(x, y) == IF x = 0 THEN y ELSE IF y = 0 THEN x
              ELSE (IF x % 2 = 1 \/ y % 2 = 1 THEN 1 ELSE 0) + 2 * Or16(x \div 2, y \div 2)

RECURSIVE Xor16(_, _)
Xor16(x, y) == IF x = 0 THEN y ELSE IF y = 0 THEN x
               ELSE ((x + y) % 2) + 2 * Xor16(x \div 2, y \div 2)

\* a & b, a | b, a ^ b, ~a : operands through ToInt32, result a signed 32-bit value
JsAnd(a, b) == LET x == ToUint32(a) y == ToUint32(b)
               IN ToInt32(<<And16(x[1], y[1]), And16(x[2], y[2])>>)

JsOr(a, b) == LET x == ToUint32(a) y == ToUint32(b)
              IN ToInt32(<<Or16(x[1], y[1]), Or16(x[2], y[2])>>)

JsXor(a, b) == LET x == ToUint32(a) y == ToUint32(b)
               IN ToInt32(<<Xor16(x[1], y[1]), Xor16(x[2], y[2])>>)

JsNot(a) == LET x == ToUint32(a) IN ToInt32(<<Half - 1 - x[1], Half - 1 - x[2]>>)

\* the unsigned 32-bit word u shifted by k in 0..31 places, bits shifted out lost
ShlBits(u, k) ==
    IF k = 0 THEN u
    ELSE IF k < 16
         THEN <<(u[1] * 2^k + (u[2] \div 2^(16 - k))) % Half, (u[2] * 2^k) % Half>>
         ELSE <<(u[2] * 2^(k - 16)) % Half, 0>>

ShrBits(u, k) ==
    IF k = 0 THEN u
    ELSE IF k < 16
         THEN <<u[1] \div 2^k, (u[2] \div 2^k) + (u[1] % 2^k) * 2^(16 - k)>>
         ELSE <<0, u[1] \div 2^(k - 16)>>

\* a << k and a >>> k : the shift count is taken modulo 32
JsShl(a, k) == ToInt32(ShlBits(ToUint32(a), k % 32))

JsUshr(a, k) == ShrBits(ToUint32(a), k % 32)

\* Math.pow(2, k) for 0 <= k <= 46
Pow2(k) == IF k < 16 THEN <<0, 2^k>> ELSE <<2^(k - 16), 0>>

MAX_U32 == <<Half - 1, Half - 1>>

-----------------------------------------------------------------------------
(* JavaScript strings *)

\* code units of the characters the model writes
Code == ("0" :> 48) @@ ("1" :> 49) @@ ("2" :> 50) @@ ("3" :> 51) @@ ("4" :> 52)
        @@ ("5" :> 53) @@ ("6" :> 54) @@ ("7" :> 55) @@ ("8" :> 56) @@ ("9" :> 57)
        @@ ("." :> 46) @@ (" " :> 32) @@ ("-" :> 45) @@ ("+" :> 43)
        @@ ("a" :> 97) @@ ("P" :> 80) @@ ("p" :> 112) @@ ("N" :> 78)
        @@ ("/" :> 47)

\* the string with the given characters
Str(cs) == [i \in 1..Len(cs) |-> Code[cs[i]]]

DOT == Code["."]

SLASH == Code["/"]

IsDigit(c) == c >= Code["0"] /\ c <= Code["9"]

\* WhiteSpace and LineTerminator code units, as String.prototype.trim and parseInt strip them
IsWhiteSpace(c) ==
    \/ c \in {9, 10, 11, 12, 13, 32, 160, 5760, 8232, 8233, 8239, 8287, 12288, 65279}
    \/ (c >= 8192 /\ c <= 8202)

\* String.prototype.split with a one-character separator
RECURSIVE Split(_, _)
Split(s, sep) ==
    LET hits == {i \in 1..Len(s) : s[i] = sep}
    IN IF hits = {} THEN <<s>>
       ELSE LET i == CHOOSE j \in hits : \A k \in hits : j <= k
            IN <<SubSeq(s, 1, i - 1)>> \o Split(SubSeq(s, i + 1, Len(s)), sep)

\* Array.prototype.join of strings with a one-character separator
RECURSIVE Join(_, _)
Join(parts, sep) ==
    IF Len(parts) = 0 THEN <<>>
    ELSE IF Len(parts) = 1 THEN parts[1]
    ELSE parts[1] \o <<sep>> \o Join(Tail(parts), sep)

\* String(n) for an integer n >= 0
RECURSIVE DecStr(_)
DecStr(n) == IF n < 10 THEN <<Code["0"] + n>>
             ELSE DecStr(n \div 10) \o <<Code["0"] + (n % 10)>>

\* String.prototype.trim
RECURSIVE TrimStart(_)
TrimStart(s) == IF Len(s) > 0 /\ IsWhiteSpace(s[1]) THEN TrimStart(Tail(s)) ELSE s

RECURSIVE TrimEnd(_)
TrimEnd(s) == IF Len(s) > 0 /\ IsWhiteSpace(s[Len(s)])
              THEN TrimEnd(SubSeq(s, 1, Len(s) - 1)) ELSE s

Trim(s) == TrimEnd(TrimStart(s))

\* the value of the longest prefix of decimal digits of s, read left to right
RECURSIVE DigitsValue(_, _)
DigitsValue(s, acc) ==
    IF Len(s) = 0 \/ ~IsDigit(s[1]) THEN acc
    ELSE DigitsValue(Tail(s), 10 * acc + (s[1] - Code["0"]))

\* parseInt(s, 10): leading white space is skipped, an optional sign is read, then
\* the longest run of digits; what follows the digits is ignored; no digit gives NaN
parseInt(s) ==
    LET t    == TrimStart(s)
        neg  == Len(t) > 0 /\ t[1] = Code["-"]
        sign == Len(t) > 0 /\ t[1] \in {Code["-"], Code["+"]}
        body == IF sign THEN Tail(t) ELSE t
    IN IF Len(body) = 0 \/ ~IsDigit(body[1]) THEN [nan |-> TRUE, val |-> 0]
       ELSE [nan |-> FALSE,
             val |-> IF neg THEN 0 - DigitsValue(body, 0) ELSE DigitsValue(body, 0)]

-----------------------------------------------------------------------------
(* Outcomes of a call *)

NoVal == <<>>

NoErr == [class |-> "", msg |-> ""]

Ret(v) == [ok |-> TRUE, val |-> v, err |-> NoErr]

Throw(class, msg) == [ok |-> FALSE, val |-> NoVal, err |-> [class |-> class, msg |-> msg]]

\* a ValidationResult; the reason is the fixed text and the interpolated part
NoReason == [kind |-> "", detail |-> <<>>]

Valid == [isValid |-> TRUE, reason |-> NoReason]

Invalid(kind, detail) == [isValid |-> FALSE, reason |-> [kind |-> kind, detail |-> detail]]

-----------------------------------------------------------------------------
(* Constants of the library *)

IPV4_OCTET_COUNT == 4

IPV4_MAX_OCTET_VALUE == 255

IPV4_MIN_PREFIX_LENGTH == 0

IPV4_MAX_PREFIX_LENGTH == 32

\* 0x03FF4000
VALID_IPV4_CHARS == <<1023, 16384>>

-----------------------------------------------------------------------------
(* Octets: util/octet.ts *)

bitflagToOctets(ip) ==
    << JsAnd(JsUshr(ip, 24), Lit(255)),
       JsAnd(JsUshr(ip, 16), Lit(255)),
       JsAnd(JsUshr(ip, 8), Lit(255)),
       JsAnd(ip, Lit(255)) >>

\* octetsToBitflag without its final >>> 0
octetsToBitflagSigned(octets) ==
    JsOr(JsOr(JsOr(JsShl(octets[1], 24), JsShl(octets[2], 16)), JsShl(octets[3], 8)),
         octets[4])

\* octets[i] of the source, for i from 0: an element the array does not have is
\* undefined, which the bitwise operators read as 0
ElementAt(octets, i) == IF i + 1 <= Len(octets) THEN octets[i + 1] ELSE Lit(0)

octetsToBitflag(octets) ==
    JsUshr(JsOr(JsOr(JsOr(JsShl(ElementAt(octets, 0), 24), JsShl(ElementAt(octets, 1), 16)),
                     JsShl(ElementAt(octets, 2), 8)),
                ElementAt(octets, 3)), 0)

\* setOctet that does not clear the octet before writing it
setOctetNoClear(ip, octetPosition, value) ==
    IF octetPosition < 0 \/ octetPosition > 3
    THEN Throw("Error", "Invalid octet position. Must be between 0 and 3 inclusive.")
    ELSE IF value < 0 \/ value > 255
    THEN Throw("Error", "Invalid octet value. Must be between 0 and 255 inclusive.")
    ELSE LET shiftAmount == (3 - octetPosition) * 8
         IN Ret(JsUshr(JsOr(ip, JsShl(Lit(value), shiftAmount)), 0))

setOctet(ip, octetPosition, value) ==
    IF octetPosition < 0 \/ octetPosition > 3
    THEN Throw("Error", "Invalid octet position. Must be between 0 and 3 inclusive.")
    ELSE IF value < 0 \/ value > 255
    THEN Throw("Error", "Invalid octet value. Must be between 0 and 255 inclusive.")
    ELSE LET shiftAmount == (3 - octetPosition) * 8
             mask        == JsNot(JsShl(Lit(255), shiftAmount))
         IN Ret(JsUshr(JsOr(JsAnd(ip, mask), JsShl(Lit(value), shiftAmount)), 0))

-----------------------------------------------------------------------------
(* Parser and formatter: util/parse.ts *)

isValidChar(charCode, validCharMask) ==
    JsAnd(validCharMask, JsShl(Lit(1), charCode)) /= Lit(0)

\* the per-octet loop of validateIPv4, from index i on
RECURSIVE ValidateOctets(_, _)
ValidateOctets(octets, i) ==
    IF i > IPV4_OCTET_COUNT THEN Valid
    ELSE LET octet == parseInt(octets[i])
         IN IF octet.nan THEN Invalid("Invalid octet", octets[i])
            ELSE IF octet.val < 0 \/ octet.val > IPV4_MAX_OCTET_VALUE
                 THEN Invalid("Octet out of range", DecStr(octet.val))
            ELSE IF Len(octets[i]) > 1 /\ octets[i][1] = Code["0"]
                 THEN Invalid("Leading zeros are not allowed", octets[i])
            ELSE ValidateOctets(octets, i + 1)

validateIPv4(ip) ==
    LET bad == {i \in 1..Len(ip) : ~isValidChar(ip[i], VALID_IPV4_CHARS)}
    IN IF bad /= {}
       THEN Invalid("Invalid character in IP address",
                    <<ip[CHOOSE i \in bad : \A j \in bad : i <= j]>>)
       ELSE LET octets == Split(ip, DOT)
            IN IF Len(octets) /= IPV4_OCTET_COUNT
               THEN Invalid("IPv4 address must have exactly 4 octets", <<>>)
               ELSE ValidateOctets(octets, 1)

parseIPv4(ip) ==
    LET validationResult == validateIPv4(ip)
    IN IF ~validationResult.isValid
       THEN Throw("IPv4ValidationError", validationResult.reason)
       ELSE LET parts == Split(ip, DOT)
            IN Ret(octetsToBitflag([i \in 1..Len(parts) |-> Lit(parseInt(parts[i]).val)]))

formatIPv4(bitflag) ==
    LET octets == bitflagToOctets(bitflag)
    IN Join([i \in 1..4 |-> DecStr(octets[i][2])], DOT)

\* A number handed to numberToIP: an integer (kind "int", val its value), a
\* non-integer (kind "frac", val its floor), NaN, Infinity or -Infinity
IntNum(v) == [kind |-> "int", val |-> v]

FracNum(floor) == [kind |-> "frac", val |-> floor]

NaN == [kind |-> "nan", val |-> Lit(0)]

Infinity == [kind |-> "inf", val |-> Lit(0)]

NegInfinity == [kind |-> "-inf", val |-> Lit(0)]

\* num < bound and num > bound for an integer bound; every comparison with NaN is
\* false, and a non-integer is below (above) an integer exactly when its floor is
\* below it (at or above it)
NumLt(num, bound) ==
    IF num.kind = "nan" \/ num.kind = "inf" THEN FALSE
    ELSE IF num.kind = "-inf" THEN TRUE
    ELSE Lt(num.val, bound)

NumGt(num, bound) ==
    IF num.kind = "nan" \/ num.kind = "-inf" THEN FALSE
    ELSE IF num.kind = "inf" THEN TRUE
    ELSE IF num.kind = "frac" THEN ~Lt(num.val, bound)
    ELSE Gt(num.val, bound)

\* the integer the 32-bit operators make of the number before reducing it modulo
\* 2^32: NaN and the infinities give 0, a non-integer is truncated towards zero
ToIntegerOrZero(num) ==
    IF num.kind \in {"nan", "inf", "-inf"} THEN Lit(0)
    ELSE IF num.kind = "frac" /\ Lt(num.val, Lit(0)) THEN Add(num.val, Lit(1))
    ELSE num.val

\* Math.pow(2, k) for k <= 46, in double arithmetic: exact down to k = -1074, the
\* smallest double above 0, and 0 below that. A power with k < 0 is a non-integer of
\* floor 0 that keeps its exponent in exp
MathPow2(k) ==
    IF k >= 0 THEN IntNum(Pow2(k))
    ELSE IF k >= 0 - 1074 THEN [kind |-> "frac", val |-> Lit(0), exp |-> k]
    ELSE IntNum(Lit(0))

\* the position of the highest one-bit of a, for 0 < a < 2^32
HighBit(a) == CHOOSE e \in 0..31 : ShrBits(a, e) = Lit(1)

\* a + s and a - s in double arithmetic (53 significant bits, ties to even), for an
\* integer a in 0..2^32 - 1 and an s that Math.pow(2, k) gave: a power 2^k with
\* k < 0 that is at most half the distance between a and the next double is lost
PlusNum(a, s) ==
    IF s.kind = "int" THEN IntNum(Add(a, s.val))
    ELSE IF a = Lit(0) THEN s
    ELSE IF s.exp <= HighBit(a) - 53 THEN IntNum(a)
    ELSE FracNum(a)

\* below a power of two the doubles are twice as close as above it
MinusNum(a, s) ==
    IF s.kind = "int" THEN IntNum(Sub(a, s.val))
    ELSE IF a = Lit(0) THEN FracNum(Lit(0 - 1))
    ELSE IF s.exp <= HighBit(a) - (IF a = Pow2(HighBit(a)) THEN 54 ELSE 53) THEN IntNum(a)
    ELSE FracNum(Sub(a, Lit(1)))

numberToIP(num) ==
    IF NumLt(num, Lit(0)) \/ NumGt(num, MAX_U32)
    THEN Throw("Error", "Invalid IPv4 numeric representation")
    ELSE Ret(formatIPv4(ToIntegerOrZero(num)))

-----------------------------------------------------------------------------
(* Bit masks: lib/bitwise/bitmask.ts, lib/bitwise/basic.ts, lib/bitwise/bitflag.ts *)

MAX_32BIT_VALUE == MAX_U32

\* generateBitmask without the special case of no bits
generateBitmaskNoZeroCase(numBits) ==
    IF numBits < 0 \/ numBits > 32
    THEN Throw("Error", "Invalid number of bits. Must be between 0 and 32 inclusive.")
    ELSE Ret(JsUshr(JsShl(MAX_U32, 32 - numBits), 0))

generateBitmask(numBits) ==
    IF numBits < 0 \/ numBits > 32
    THEN Throw("Error", "Invalid number of bits. Must be between 0 and 32 inclusive.")
    ELSE Ret(IF numBits = 0 THEN Lit(0)
             ELSE JsUshr(JsShl(MAX_32BIT_VALUE, 32 - numBits), 0))

leftShift(n, positions) ==
    IF positions < 0 \/ positions > 31
    THEN Throw("Error", "Invalid number of positions for left shift.")
    ELSE Ret(JsUshr(JsShl(JsOr(n, Lit(0)), positions), 0))

hasFlag(flags, flagToCheck) ==
    JsUshr(JsAnd(JsUshr(flags, 0), JsUshr(flagToCheck, 0)), 0) = JsUshr(flagToCheck, 0)

-----------------------------------------------------------------------------
(* The stricter validator of util/validate.ts *)

\* the checks made on the assembled address, after the per-octet loop
ValidateAddressClass(ipBitflag) ==
    LET classDMask == generateBitmask(4).val
        classEMask == generateBitmask(3).val
    IN IF ipBitflag = Lit(0) THEN Invalid("Invalid IP: 0.0.0.0", <<>>)
       ELSE IF hasFlag(ipBitflag, classDMask)
            THEN IF hasFlag(ipBitflag, classEMask)
                 THEN Invalid("Class E IP addresses are reserved", <<>>)
                 ELSE Invalid("Class D IP addresses are reserved for multicast", <<>>)
       ELSE IF ipBitflag = MAX_U32
            THEN Invalid("Broadcast IP address is not valid for hosts", <<>>)
       ELSE Valid

RECURSIVE ValidateOctetsStrict(_, _, _)
ValidateOctetsStrict(octets, i, ipBitflag) ==
    IF i > 4 THEN ValidateAddressClass(ipBitflag)
    ELSE LET octet == parseInt(octets[i])
         IN IF octet.nan THEN Invalid("Invalid octet", octets[i])
            ELSE IF octet.val < 0 \/ octet.val > 255
                 THEN Invalid("Octet out of range", DecStr(octet.val))
            ELSE IF Len(octets[i]) > 1 /\ octets[i][1] = Code["0"]
                 THEN Invalid("Leading zeros are not allowed", octets[i])
            ELSE ValidateOctetsStrict(octets, i + 1,
                                      JsOr(leftShift(ipBitflag, 8).val, Lit(octet.val)))

validateIPv4Strict(ip) ==
    LET bad == {i \in 1..Len(ip) : ~isValidChar(ip[i], VALID_IPV4_CHARS)}
    IN IF bad /= {}
       THEN Invalid("Invalid character in IP address",
                    <<ip[CHOOSE i \in bad : \A j \in bad : i <= j]>>)
       ELSE LET octets == Split(ip, DOT)
            IN IF Len(octets) /= 4
               THEN Invalid("IPv4 address must have exactly 4 octets", <<>>)
               ELSE ValidateOctetsStrict(octets, 1, Lit(0))

-----------------------------------------------------------------------------
(* Constructors of the branded address type: util/helper.ts, util/helpers.ts *)

assertIPv4Address(address) ==
    LET trimmedAddress == Trim(address)
    IN IF trimmedAddress /= address
       THEN Throw("Error", [kind |-> "Leading or trailing whitespace not allowed",
                            detail |-> address])
       ELSE LET validationResult == validateIPv4(trimmedAddress)
            IN IF ~validationResult.isValid
               THEN Throw("Error", validationResult.reason)
               ELSE Ret(trimmedAddress)

createIPv4Address(address) ==
    LET validationResult == validateIPv4(address)
    IN IF ~validationResult.isValid
       THEN Throw("Error", validationResult.reason)
       ELSE Ret(address)

-----------------------------------------------------------------------------
(* Subnet masks: util/mask.ts *)

\* the loop of countLeadingOnes of lib/bitwise/bitmask.ts, n already inverted
RECURSIVE CountLeadingLoop(_, _)
CountLeadingLoop(n, count) ==
    IF JsAnd(n, <<2^15, 0>>) = Lit(0) /\ count < 32
    THEN CountLeadingLoop(JsShl(n, 1), count + 1)
    ELSE count

countLeadingOnes(n) == CountLeadingLoop(JsNot(n), 0)

createMask(prefixLength) ==
    IF prefixLength < IPV4_MIN_PREFIX_LENGTH \/ prefixLength > IPV4_MAX_PREFIX_LENGTH
    THEN Throw("IPv4ValidationError", "Invalid prefix length")
    ELSE Ret(JsUshr(generateBitmask(prefixLength).val, 0))

getMaskPrefixUnchecked(mask) == Ret(countLeadingOnes(mask))

getMaskPrefix(mask) ==
    LET prefix == countLeadingOnes(mask)
    IN IF JsUshr(mask, 0) /= JsUshr(createMask(prefix).val, 0)
       THEN Throw("IPv4ValidationError", "Invalid subnet mask")
       ELSE Ret(prefix)

\* util/mask.ts as core/cidr.ts imports it: the two functions are declared with empty
\* bodies in the sources, so they are modelled from the specification's
\* maskFromPrefix (top n bits set, failing outside [0,32]) and from the prefix length
\* being the count of leading one-bits
createSubnetMask(prefixLength) ==
    IF prefixLength < 0 \/ prefixLength > 32
    THEN Throw("InvalidMask", "Invalid prefix length")
    ELSE Ret(Sub(Pow2(32), Pow2(32 - prefixLength)))

getPrefixLength(subnetMask) ==
    LET lead == { n \in 0..32 : \A b \in 1..n : JsAnd(subnetMask, Pow2(32 - b)) /= Lit(0) }
    IN CHOOSE n \in lead : \A m \in lead : m <= n

-----------------------------------------------------------------------------
(* CIDR algebra: core/cidr.ts *)

calculatePrefixLengthFromSubnetMask(subnetMask) ==
    LET parsed == parseIPv4(subnetMask)
    IN IF ~parsed.ok THEN parsed
       ELSE LET maskInt      == parsed.val
                prefixLength == getPrefixLength(maskInt)
                expectedMask == createSubnetMask(prefixLength)
            IN IF ~expectedMask.ok THEN expectedMask
               ELSE IF maskInt /= expectedMask.val
                    THEN Throw("IPv4ValidationError", "Invalid subnet mask")
                    ELSE Ret(prefixLength)

getNextSubnet(currentSubnet, prefixLength) ==
    LET parsed == parseIPv4(currentSubnet)
    IN IF ~parsed.ok THEN parsed
       ELSE LET subnetSize        == MathPow2(IPV4_MAX_PREFIX_LENGTH - prefixLength)
                nextSubnetBitflag == PlusNum(parsed.val, subnetSize)
            IN IF NumGt(nextSubnetBitflag, MAX_U32)
               THEN Throw("IPv4SubnetError",
                          "No next subnet available (address space overflow)")
               ELSE Ret(formatIPv4(ToIntegerOrZero(nextSubnetBitflag)))

getPreviousSubnet(currentSubnet, prefixLength) ==
    LET parsed == parseIPv4(currentSubnet)
    IN IF ~parsed.ok THEN parsed
       ELSE LET subnetSize            == MathPow2(IPV4_MAX_PREFIX_LENGTH - prefixLength)
                previousSubnetBitflag == MinusNum(parsed.val, subnetSize)
            IN IF NumLt(previousSubnetBitflag, Lit(0))
               THEN Throw("IPv4SubnetError",
                          "No previous subnet available (address space underflow)")
               ELSE Ret(formatIPv4(ToIntegerOrZero(previousSubnetBitflag)))

\* applyMask of lib/bitwise/bitmask.ts; not and or of lib/bitwise/basic.ts
applyMask(value, mask) == JsUshr(JsAnd(value, mask), 0)

not(n) == JsUshr(JsNot(n), 0)

or(a, b) == JsOr(a, b)

\* subnets.map(parseIPv4) from index i on: the values parsed so far are acc, and the
\* first element that does not parse throws
RECURSIVE ParseAll(_, _, _)
ParseAll(subnets, i, acc) ==
    IF i > Len(subnets) THEN Ret(acc)
    ELSE LET r == parseIPv4(subnets[i])
         IN IF ~r.ok THEN r ELSE ParseAll(subnets, i + 1, Append(acc, r.val))

\* the least and the greatest of a non-empty sequence of numbers, as the first and
\* the last element of the sequence sorted with (a, b) => a - b
MinOf(nums) ==
    nums[CHOOSE k \in 1..Len(nums) : \A j \in 1..Len(nums) : ~Lt(nums[j], nums[k])]

MaxOf(nums) ==
    nums[CHOOSE k \in 1..Len(nums) : \A j \in 1..Len(nums) : ~Gt(nums[j], nums[k])]

summarizeSubnets(subnets) ==
    IF Len(subnets) < 2
    THEN Throw("IPv4SubnetError", "At least two subnets are required for summarization")
    ELSE LET parsed == ParseAll(subnets, 1, <<>>)
         IN IF ~parsed.ok THEN parsed
            ELSE LET minIp == MinOf(parsed.val)
                     maxIp == MaxOf(parsed.val)
                     diff  == JsXor(minIp, maxIp)
                     commonPrefixLength == IPV4_MAX_PREFIX_LENGTH - getPrefixLength(diff)
                     made  == createSubnetMask(commonPrefixLength)
                 IN IF ~made.ok THEN made
                    ELSE Ret(<< formatIPv4(applyMask(minIp, made.val)),
                                commonPrefixLength >>)

findCommonSupernet(subnetA, prefixLengthA, subnetB, prefixLengthB) ==
    LET networkA == parseIPv4(subnetA)
        networkB == parseIPv4(subnetB)
    IN IF ~networkA.ok THEN networkA
       ELSE IF ~networkB.ok THEN networkB
       ELSE LET diff               == JsXor(networkA.val, networkB.val)
                differentBits      == getPrefixLength(diff)
                commonPrefixLength == IPV4_MAX_PREFIX_LENGTH - differentBits
                made               == createSubnetMask(commonPrefixLength)
            IN IF ~made.ok THEN made
               ELSE LET commonNetwork == JsUshr(applyMask(networkA.val, made.val), 0)
                    IN Ret(<< formatIPv4(commonNetwork), commonPrefixLength >>)

parseCIDR(cidr) ==
    LET parts == Split(cidr, SLASH)
    IN IF Len(parts) /= 2
       THEN Throw("IPv4ValidationError", "Invalid CIDR notation")
       ELSE LET ipAddress    == parts[1]
                prefixLength == parseInt(parts[2])
            IN IF prefixLength.nan \/ prefixLength.val < IPV4_MIN_PREFIX_LENGTH
                  \/ prefixLength.val > IPV4_MAX_PREFIX_LENGTH
               THEN Throw("IPv4ValidationError", "Invalid prefix length")
               ELSE IF ~parseIPv4(ipAddress).ok THEN parseIPv4(ipAddress)
               ELSE Ret(<<ipAddress, prefixLength.val>>)

calculateAvailableIPs(prefixLength) ==
    IF prefixLength < IPV4_MIN_PREFIX_LENGTH \/ prefixLength > IPV4_MAX_PREFIX_LENGTH
    THEN Throw("IPv4SubnetError", "Invalid prefix length")
    ELSE IF prefixLength = IPV4_MAX_PREFIX_LENGTH THEN Ret(Lit(1))
    ELSE IF prefixLength = IPV4_MAX_PREFIX_LENGTH - 1 THEN Ret(Lit(2))
    ELSE Ret(Sub(Pow2(IPV4_MAX_PREFIX_LENGTH - prefixLength), Lit(2)))

calculateNetworkAddress(ip, prefixLength) ==
    LET parsed == parseIPv4(ip)
        made   == createSubnetMask(prefixLength)
    IN IF ~parsed.ok THEN parsed
       ELSE IF ~made.ok THEN made
       ELSE Ret(formatIPv4(JsUshr(applyMask(parsed.val, made.val), 0)))

\* calculateBroadcastAddress or-ing the mask itself in place of its complement
calculateBroadcastAddressNoInvert(ip, prefixLength) ==
    LET parsed == parseIPv4(ip)
        made   == createSubnetMask(prefixLength)
    IN IF ~parsed.ok THEN parsed
       ELSE IF ~made.ok THEN made
       ELSE Ret(formatIPv4(JsUshr(or(parsed.val, made.val), 0)))

calculateBroadcastAddress(ip, prefixLength) ==
    LET parsed == parseIPv4(ip)
        made   == createSubnetMask(prefixLength)
    IN IF ~parsed.ok THEN parsed
       ELSE IF ~made.ok THEN made
       ELSE LET invertedMask == JsUshr(not(made.val), 0)
            IN Ret(formatIPv4(JsUshr(or(parsed.val, invertedMask), 0)))

\* getIPRange: the first exception of the two calls is the one thrown
getIPRange(networkAddress, prefixLength) ==
    LET firstIP == calculateNetworkAddress(networkAddress, prefixLength)
        lastIP  == calculateBroadcastAddress(networkAddress, prefixLength)
    IN IF ~firstIP.ok THEN firstIP
       ELSE IF ~lastIP.ok THEN lastIP
       ELSE Ret(<< firstIP.val, lastIP.val >>)

\* isSubnetOf with < in place of <= in its first test
isSubnetOfNonStrict(subnetA, prefixLengthA, subnetB, prefixLengthB) ==
    IF prefixLengthA < prefixLengthB THEN Ret(FALSE)
    ELSE LET networkA == parseIPv4(subnetA)
             networkB == parseIPv4(subnetB)
             maskB    == createSubnetMask(prefixLengthB)
         IN IF ~networkA.ok THEN networkA
            ELSE IF ~networkB.ok THEN networkB
            ELSE IF ~maskB.ok THEN maskB
            ELSE Ret(applyMask(networkA.val, maskB.val) = applyMask(networkB.val, maskB.val))

isSubnetOf(subnetA, prefixLengthA, subnetB, prefixLengthB) ==
    IF prefixLengthA <= prefixLengthB THEN Ret(FALSE)
    ELSE LET networkA == parseIPv4(subnetA)
             networkB == parseIPv4(subnetB)
             maskB    == createSubnetMask(prefixLengthB)
         IN IF ~networkA.ok THEN networkA
            ELSE IF ~networkB.ok THEN networkB
            ELSE IF ~maskB.ok THEN maskB
            ELSE Ret(applyMask(networkA.val, maskB.val) = applyMask(networkB.val, maskB.val))

\* the loop of splitSubnet from index i on: the addresses pushed so far are acc
RECURSIVE SplitLoopFromOne(_, _, _, _, _)
SplitLoopFromOne(networkInt, i, numNewSubnets, newSubnetSize, acc) ==
    IF ~(i < numNewSubnets) THEN Ret(acc)
    ELSE LET newSubnetInt == JsUshr(Add(networkInt, Mul(i + 1, newSubnetSize)), 0)
         IN IF Gt(newSubnetInt, MAX_U32)
            THEN Throw("IPv4SubnetError", "Address space overflow")
            ELSE SplitLoopFromOne(networkInt, i + 1, numNewSubnets, newSubnetSize,
                                  Append(acc, formatIPv4(newSubnetInt)))

RECURSIVE SplitLoop(_, _, _, _, _)
SplitLoop(networkInt, i, numNewSubnets, newSubnetSize, acc) ==
    IF ~(i < numNewSubnets) THEN Ret(acc)
    ELSE LET newSubnetInt == JsUshr(Add(networkInt, Mul(i, newSubnetSize)), 0)
         IN IF Gt(newSubnetInt, MAX_U32)
            THEN Throw("IPv4SubnetError", "Address space overflow")
            ELSE SplitLoop(networkInt, i + 1, numNewSubnets, newSubnetSize,
                           Append(acc, formatIPv4(newSubnetInt)))

\* splitSubnet with < in place of <= in its first test
splitSubnetAllowsEqual(networkAddress, currentPrefixLength, newPrefixLength) ==
    IF newPrefixLength < currentPrefixLength \/ newPrefixLength > IPV4_MAX_PREFIX_LENGTH
    THEN Throw("IPv4SubnetError", "Invalid new prefix length for splitting")
    ELSE LET parsed == parseIPv4(networkAddress)
         IN IF ~parsed.ok THEN parsed
            ELSE SplitLoop(parsed.val, 0, 2^(newPrefixLength - currentPrefixLength),
                           Pow2(IPV4_MAX_PREFIX_LENGTH - newPrefixLength), <<>>)

splitSubnet(networkAddress, currentPrefixLength, newPrefixLength) ==
    IF newPrefixLength <= currentPrefixLength \/ newPrefixLength > IPV4_MAX_PREFIX_LENGTH
    THEN Throw("IPv4SubnetError", "Invalid new prefix length for splitting")
    ELSE LET parsed == parseIPv4(networkAddress)
         IN IF ~parsed.ok THEN parsed
            ELSE SplitLoop(parsed.val, 0, 2^(newPrefixLength - currentPrefixLength),
                           Pow2(IPV4_MAX_PREFIX_LENGTH - newPrefixLength), <<>>)

\* the number of passes splitSubnet makes through its loop, each pushing one string
\* onto the array it returns: none when it throws first, otherwise numNewSubnets
splitSubnetPasses(networkAddress, currentPrefixLength, newPrefixLength) ==
    IF newPrefixLength <= currentPrefixLength \/ newPrefixLength > IPV4_MAX_PREFIX_LENGTH
    THEN 0
    ELSE IF ~parseIPv4(networkAddress).ok THEN 0
         ELSE 2^(newPrefixLength - currentPrefixLength)

-----------------------------------------------------------------------------
(* Address arithmetic: operations.ts *)

\* Number(s) of a part of a dotted string: white space is trimmed, the empty string
\* is 0, an optional sign followed by decimal digits is that integer, and anything
\* else over the alphabet of Code is NaN
NumberOf(s) ==
    LET t      == Trim(s)
        signed == Len(t) > 0 /\ t[1] \in {Code["-"], Code["+"]}
        digits == IF signed THEN SubSeq(t, 2, Len(t)) ELSE t
    IN IF (signed /\ Len(digits) = 0) \/ \E i \in 1..Len(digits) : ~IsDigit(digits[i])
       THEN [nan |-> TRUE, val |-> 0]
       ELSE [nan |-> FALSE,
             val |-> IF signed /\ t[1] = Code["-"] THEN 0 - DigitsValue(digits, 0)
                     ELSE DigitsValue(digits, 0)]

\* NaN becomes 0 under the shifts and ors of octetsToBitflag
ipToBitflag(ip) ==
    LET parts == Split(ip, DOT)
    IN octetsToBitflag([i \in 1..4 |->
           IF i > Len(parts) \/ NumberOf(parts[i]).nan THEN Lit(0)
           ELSE Lit(NumberOf(parts[i]).val)])

bitflagToIP(bitflag) ==
    LET octets == bitflagToOctets(bitflag)
    IN Join([i \in 1..4 |-> DecStr(octets[i][2])], DOT)

incrementIP(ip, amount) ==
    LET bitflag == ipToBitflag(ip)
        result  == JsUshr(Add(bitflag, amount), 0)
    IN IF Gt(result, MAX_U32)
       THEN Throw("IPv4ArithmeticError",
                  "Increment operation results in an invalid IPv4 address")
       ELSE Ret(bitflagToIP(result))

decrementIP(ip, amount) ==
    LET bitflag == ipToBitflag(ip)
        result  == JsUshr(Sub(bitflag, amount), 0)
    IN IF Lt(bitflag, amount)
       THEN Throw("IPv4ArithmeticError",
                  "Decrement operation results in an invalid IPv4 address")
       ELSE Ret(bitflagToIP(result))

\* countSetBits of core/base.ts; the product by 0x01010101 is exact in a JavaScript
\* number and is taken here modulo 2^32, which is all that >>> 24 reads of it
countSetBits(n) ==
    LET n1 == Sub(n, JsAnd(JsUshr(n, 1), <<21845, 21845>>))
        n2 == Add(JsAnd(n1, <<13107, 13107>>), JsAnd(JsUshr(n1, 2), <<13107, 13107>>))
        n3 == JsAnd(Add(n2, JsUshr(n2, 4)), <<3855, 3855>>)
        product == Add(Add(n3, ShlBits(n3, 8)), Add(ShlBits(n3, 16), ShlBits(n3, 24)))
    IN JsUshr(product, 24)[2]

getUsableHostCount(subnetMask) ==
    LET maskBitflag == ipToBitflag(subnetMask)
        hostBits    == 32 - countSetBits(maskBitflag)
    IN Ret(Sub(Pow2(hostBits), Lit(2)))

\* generateBitmask of base.ts, which operations.ts imports: the low numBits bits
generateBitmaskOfBase(numBits) ==
    IF numBits < 0 \/ numBits > 32
    THEN Throw("Error", "Invalid number of bits. Must be between 0 and 32 inclusive.")
    ELSE Ret(IF numBits = 32 THEN MAX_32BIT_VALUE
             ELSE JsUshr(Sub(JsShl(Lit(1), numBits), Lit(1)), 0))

cidrToSubnetMask(cidr) ==
    IF cidr < 0 \/ cidr > 32
    THEN Throw("IPv4ArithmeticError", "Invalid CIDR notation")
    ELSE LET maskBitflag == JsShl(generateBitmaskOfBase(cidr).val, 32 - cidr)
         IN Ret(bitflagToIP(maskBitflag))

subnetMaskToCIDR(subnetMask) ==
    LET maskBitflag == ipToBitflag(subnetMask)
        cidr        == countSetBits(maskBitflag)
    IN IF JsUshr(maskBitflag, 0) /= JsShl(generateBitmaskOfBase(cidr).val, 32 - cidr)
       THEN Throw("IPv4ArithmeticError", "Invalid subnet mask")
       ELSE Ret(cidr)

\* getNextSubnet and getPreviousSubnet of operations.ts, which take the subnet mask
getNextSubnetByMask(currentSubnet, subnetMask) ==
    LET subnetBitflag     == ipToBitflag(currentSubnet)
        maskBitflag       == ipToBitflag(subnetMask)
        subnetSize        == Add(JsUshr(JsNot(maskBitflag), 0), Lit(1))
        nextSubnetBitflag == JsUshr(Add(subnetBitflag, subnetSize), 0)
    IN IF Gt(nextSubnetBitflag, MAX_U32)
       THEN Throw("IPv4ArithmeticError", "No next subnet available")
       ELSE Ret(bitflagToIP(nextSubnetBitflag))

getPreviousSubnetByMask(currentSubnet, subnetMask) ==
    LET subnetBitflag == ipToBitflag(currentSubnet)
        maskBitflag   == ipToBitflag(subnetMask)
        subnetSize    == Add(JsUshr(JsNot(maskBitflag), 0), Lit(1))
    IN IF Lt(subnetBitflag, subnetSize)
       THEN Throw("IPv4ArithmeticError", "No previous subnet available")
       ELSE Ret(bitflagToIP(JsUshr(Sub(subnetBitflag, subnetSize), 0)))

-----------------------------------------------------------------------------
(* Special-use addresses: the two definitions of the special.ts module *)

\* the string literal 'a.b.c.d' of the source; assertIPv4Address, which the range
\* constants are passed through, returns such a literal as it is given
IPText(a, b, c, d) == Join(<<DecStr(a), DecStr(b), DecStr(c), DecStr(d)>>, DOT)

\* isIPInRange of operations.ts: the three addresses are compared as numbers
isIPInRange(ip, startIP, endIP) ==
    LET ipBitflag    == ipToBitflag(ip)
        startBitflag == ipToBitflag(startIP)
        endBitflag   == ipToBitflag(endIP)
    IN ~Lt(ipBitflag, startBitflag) /\ ~Gt(ipBitflag, endBitflag)

PRIVATE_RANGES ==
    << << IPText(10, 0, 0, 0),
          IPText(10, 255, 255, 255) >>,
       << IPText(172, 16, 0, 0),
          IPText(172, 31, 255, 255) >>,
       << IPText(192, 168, 0, 0),
          IPText(192, 168, 255, 255) >> >>

LOOPBACK_RANGE ==
    << IPText(127, 0, 0, 0),
       IPText(127, 255, 255, 255) >>

LINK_LOCAL_RANGE ==
    << IPText(169, 254, 0, 0),
       IPText(169, 254, 255, 255) >>

MULTICAST_RANGE ==
    << IPText(224, 0, 0, 0),
       IPText(239, 255, 255, 255) >>

BROADCAST_IP == IPText(255, 255, 255, 255)

DOCUMENTATION_RANGES ==
    << << IPText(192, 0, 2, 0),
          IPText(192, 0, 2, 255) >>,
       << IPText(198, 51, 100, 0),
          IPText(198, 51, 100, 255) >>,
       << IPText(203, 0, 113, 0),
          IPText(203, 0, 113, 255) >> >>

BENCHMARKING_RANGE ==
    << IPText(198, 18, 0, 0),
       IPText(198, 19, 255, 255) >>

SHARED_ADDRESS_SPACE_RANGE ==
    << IPText(100, 64, 0, 0),
       IPText(100, 127, 255, 255) >>

RESERVED_RANGES ==
    << << IPText(0, 0, 0, 0),
          IPText(0, 255, 255, 255) >>,
       << IPText(240, 0, 0, 0),
          IPText(255, 255, 255, 254) >> >>

\* ranges.some(([start, end]) => isIPInRange(ip, start, end))
isPrivateIP(ip) ==
    \E i \in 1..Len(PRIVATE_RANGES) :
        isIPInRange(ip, PRIVATE_RANGES[i][1], PRIVATE_RANGES[i][2])

isLoopbackIP(ip) == isIPInRange(ip, LOOPBACK_RANGE[1], LOOPBACK_RANGE[2])

isLinkLocalIP(ip) == isIPInRange(ip, LINK_LOCAL_RANGE[1], LINK_LOCAL_RANGE[2])

isMulticastIP(ip) == isIPInRange(ip, MULTICAST_RANGE[1], MULTICAST_RANGE[2])

\* ip === BROADCAST_IP compares the two strings
isBroadcastIP(ip) == ip = BROADCAST_IP

isDocumentationIP(ip) ==
    \E i \in 1..Len(DOCUMENTATION_RANGES) :
        isIPInRange(ip, DOCUMENTATION_RANGES[i][1], DOCUMENTATION_RANGES[i][2])

isBenchmarkingIP(ip) == isIPInRange(ip, BENCHMARKING_RANGE[1], BENCHMARKING_RANGE[2])

isSharedAddressSpaceIP(ip) ==
    isIPInRange(ip, SHARED_ADDRESS_SPACE_RANGE[1], SHARED_ADDRESS_SPACE_RANGE[2])

isReservedIP(ip) ==
    \E i \in 1..Len(RESERVED_RANGES) :
        isIPInRange(ip, RESERVED_RANGES[i][1], RESERVED_RANGES[i][2])

\* getSpecialIPType with the Reserved test left out
getSpecialIPTypeNoReserved(ip) ==
    IF isPrivateIP(ip) THEN "Private"
    ELSE IF isLoopbackIP(ip) THEN "Loopback"
    ELSE IF isLinkLocalIP(ip) THEN "Link-local"
    ELSE IF isMulticastIP(ip) THEN "Multicast"
    ELSE IF isBroadcastIP(ip) THEN "Broadcast"
    ELSE IF isBenchmarkingIP(ip) THEN "Benchmarking"
    ELSE IF isSharedAddressSpaceIP(ip) THEN "Shared Address Space"
    ELSE IF isDocumentationIP(ip) THEN "Documentation"
    ELSE "Public"

getSpecialIPType(ip) ==
    IF isPrivateIP(ip) THEN "Private"
    ELSE IF isLoopbackIP(ip) THEN "Loopback"
    ELSE IF isLinkLocalIP(ip) THEN "Link-local"
    ELSE IF isMulticastIP(ip) THEN "Multicast"
    ELSE IF isBroadcastIP(ip) THEN "Broadcast"
    ELSE IF isBenchmarkingIP(ip) THEN "Benchmarking"
    ELSE IF isSharedAddressSpaceIP(ip) THEN "Shared Address Space"
    ELSE IF isDocumentationIP(ip) THEN "Documentation"
    ELSE IF isReservedIP(ip) THEN "Reserved"
    ELSE "Public"

isGlobalUnicastIP(ip) == getSpecialIPType(ip) = "Public"

\* The second definition of the module, further down the same file. Its isPrivateIP,
\* isLoopbackIP, isLinkLocalIP, isMulticastIP, isBroadcastIP, isDocumentationIP,
\* isBenchmarkingIP and isSharedAddressSpaceIP test the ranges of the first
\* definition, written as literals; its isReservedIP and getSpecialIPType differ.
isReservedIPSecond(ip) ==
    \/ isIPInRange(ip, IPText(240, 0, 0, 0), IPText(255, 255, 255, 254))
    \/ isIPInRange(ip, IPText(198, 51, 100, 0), IPText(198, 51, 100, 255))
    \/ isIPInRange(ip, IPText(203, 0, 113, 0), IPText(203, 0, 113, 255))
    \/ ip = IPText(192, 0, 2, 0)
    \/ ip = IPText(192, 0, 2, 255)

getSpecialIPTypeSecond(ip) ==
    IF isPrivateIP(ip) THEN "Private"
    ELSE IF isLoopbackIP(ip) THEN "Loopback"
    ELSE IF isLinkLocalIP(ip) THEN "Link-local"
    ELSE IF isMulticastIP(ip) THEN "Multicast"
    ELSE IF isBroadcastIP(ip) THEN "Broadcast"
    ELSE IF isReservedIPSecond(ip) THEN "Reserved"
    ELSE IF isDocumentationIP(ip) THEN "Documentation"
    ELSE IF isBenchmarkingIP(ip) THEN "Benchmarking"
    ELSE IF isSharedAddressSpaceIP(ip) THEN "Shared Address Space"
    ELSE "Public"

isGlobalUnicastIPSecond(ip) == getSpecialIPTypeSecond(ip) = "Public"

-----------------------------------------------------------------------------
(* Bit ranges and octets: lib/bitwise/basic.ts, lib/bitwise/bitmask.ts, util/octet.ts *)

InvalidBitRange ==
    Throw("Error", "Invalid bit range. Start and end positions must be between 0 and 31 inclusive, and start <= end.")

\* extractBits of basic.ts
extractBits(n, start, end) ==
    IF start < 0 \/ end > 31 \/ start > end
    THEN InvalidBitRange
    ELSE LET n0 == JsUshr(n, 0)
         IN IF start = 0 /\ end = 31
            THEN Ret(n0)
            ELSE LET mask == JsShl(Sub(JsShl(Lit(1), end - start + 1), Lit(1)), start)
                 IN Ret(JsUshr(JsUshr(JsAnd(n0, mask), start), 0))

\* extractBits of bitmask.ts, which has no case for the full range
extractBitsOfBitmask(n, start, end) ==
    IF start < 0 \/ end > 31 \/ start > end
    THEN InvalidBitRange
    ELSE LET mask == JsShl(Sub(JsShl(Lit(1), end - start + 1), Lit(1)), start)
         IN Ret(JsUshr(JsAnd(n, mask), start))

\* extractOctet of octet.ts; every definition of extractBits gives the same value on
\* the four octet ranges
extractOctet(ip, octetPosition) ==
    IF octetPosition < 0 \/ octetPosition > 3
    THEN Throw("Error", "Invalid octet position. Must be between 0 and 3 inclusive.")
    ELSE extractBits(ip, (3 - octetPosition) * 8, (3 - octetPosition) * 8 + 7)

-----------------------------------------------------------------------------
(* Classification of bitflags: util/classify.ts *)

\* isPrivateIP of classify.ts as it stands in part_006: the constants are parsed
\* from their texts
isPrivateIPOfClassify(ip) ==
    \/ applyMask(ip, parseIPv4(IPText(255, 0, 0, 0)).val) = parseIPv4(IPText(10, 0, 0, 0)).val
    \/ (/\ ~Lt(ip, parseIPv4(IPText(172, 16, 0, 0)).val)
        /\ ~Gt(ip, parseIPv4(IPText(172, 31, 255, 255)).val))
    \/ applyMask(ip, parseIPv4(IPText(255, 255, 0, 0)).val)
           = parseIPv4(IPText(192, 168, 0, 0)).val

\* isPrivateIP of classify.ts as it stands in part_007: the constants are built with
\* << and |, whose results are signed
isPrivateIPOfClassifyShifts(ip) ==
    LET classA == applyMask(ip, generateBitmask(8).val) = JsShl(Lit(10), 24)
        classB == applyMask(ip, generateBitmask(12).val)
                      = JsOr(JsShl(Lit(172), 24), JsShl(Lit(16), 16))
        classC == applyMask(ip, generateBitmask(16).val)
                      = JsOr(JsShl(Lit(192), 24), JsShl(Lit(168), 16))
    IN classA \/ classB \/ classC

isMulticastIPOfClassify(ip) == applyMask(ip, generateBitmask(4).val) = <<57344, 0>>

isReservedIPOfClassify(ip) ==
    \/ applyMask(ip, generateBitmask(8).val) = Lit(0)
    \/ applyMask(ip, generateBitmask(10).val) = <<25664, 0>>
    \/ applyMask(ip, generateBitmask(24).val) = <<49152, 0>>
    \/ applyMask(ip, generateBitmask(24).val) = <<49152, 512>>
    \/ applyMask(ip, generateBitmask(24).val) = <<50739, 25600>>
    \/ applyMask(ip, generateBitmask(24).val) = <<51968, 28928>>
    \/ applyMask(ip, generateBitmask(4).val) = <<61440, 0>>

getMulticastType(ip) ==
    IF ~isMulticastIPOfClassify(ip) THEN "Not Multicast"
    ELSE LET firstOctet == extractOctet(ip, 0).val[2]
         IN IF isReservedIPOfClassify(ip) THEN "Reserved"
            ELSE IF firstOctet = 224 THEN "Well-Known Multicast"
            ELSE IF firstOctet = 225 THEN "Transient Multicast"
            ELSE IF firstOctet = 238
                 THEN IF applyMask(ip, generateBitmask(24).val) = <<60928, 0>>
                      THEN "Unicast-Prefix-based Multicast"
                      ELSE "Reserved"
            ELSE IF firstOctet = 239 THEN "Administratively Scoped"
            ELSE IF firstOctet >= 232 /\ firstOctet <= 235 THEN "Source-Specific Multicast"
            ELSE IF firstOctet >= 236 /\ firstOctet <= 237 THEN "GLOP Addressing"
            ELSE "Reserved"

-----------------------------------------------------------------------------
(* Arguments the calls are drawn from *)

\* texts of the first part of a dotted string, and of the parts after it
FirstTexts ==
    { Str(<<"0">>), Str(<<"1", "0">>), Str(<<"1", "2", "7">>), Str(<<"2", "2", "4">>),
      Str(<<"2", "4", "0">>), Str(<<"2", "5", "5">>), Str(<<"2", "5", "6">>),
      Str(<<"0", "1">>), Str(<<>>), Str(<<"1", "P">>), Str(<<"a">>) }

RestTexts ==
    { Str(<<"0">>), Str(<<"2", "5", "5">>), Str(<<"0", "1">>), Str(<<>>),
      Str(<<"1", "P">>) }

DottedStrings ==
    UNION { { Join(<<f>> \o r, DOT) : f \in FirstTexts, r \in [1..(n - 1) -> RestTexts] }
            : n \in 1..MaxParts }

\* well-formed addresses with white space around them
PaddedStrings ==
    { pre \o s \o post :
        s \in { Str(<<"1", "0", ".", "0", ".", "0", ".", "1">>),
                Str(<<"0", ".", "0", ".", "0", ".", "0">>) },
        pre \in { <<>>, <<32>>, <<9>> }, post \in { <<>>, <<32>>, <<10>> } }

InputStrings == DottedStrings \cup PaddedStrings

\* 32-bit values around the boundaries of the address space and of its blocks
Anchors ==
    { Lit(0), <<0, 256>>, <<1, 0>>, <<256, 0>>, <<2560, 0>>, <<32512, 1>>, <<2^15, 0>>,
      <<49320, 256>>, <<57344, 0>>, <<61440, 0>>, <<65535, 65280>>, MAX_U32 }

IsU32(a) == ~Lt(a, Lit(0)) /\ ~Gt(a, MAX_U32)

SampleAddrs ==
    { a \in UNION { { Add(x, Lit(d)), Sub(x, Lit(d)) } : x \in Anchors, d \in 0..MaxDelta }
        : IsU32(a) }

\* the dotted-decimal text of a 32-bit value, written from its four bytes
Dotted(a) ==
    Join(<< DecStr(a[1] \div 256), DecStr(a[1] % 256),
            DecStr(a[2] \div 256), DecStr(a[2] % 256) >>, DOT)


\* the 32-bit value with exactly the top n bits set
TopBits(n) == Sub(Pow2(32), Pow2(32 - n))

\* bit positions a drawn mask may differ in from a contiguous mask
FlipBits == {0, 7, 8, 15, 16, 24, 31}

RECURSIVE FlipMask(_, _)
FlipMask(m, bits) ==
    IF bits = {} THEN m
    ELSE LET b == CHOOSE x \in bits : TRUE
         IN FlipMask(JsUshr(JsXor(m, Pow2(b)), 0), bits \ {b})

MaskSamples ==
    { FlipMask(TopBits(n), bits) :
        n \in 0..32, bits \in { S \in SUBSET FlipBits : Cardinality(S) <= MaxFlips } }

\* amounts added and subtracted: small, about 2^31 and about 2^32, of both signs
AmountAnchors == { Lit(0), <<0, 256>>, <<2^15, 0>>, Pow2(32) }

Amounts ==
    UNION { { Add(x, Lit(d)), Sub(x, Lit(d)), Sub(Lit(0), Add(x, Lit(d))),
              Sub(Lit(0), Sub(x, Lit(d))) } : x \in AmountAnchors, d \in 0..MaxDelta }

\* addresses the lists to summarize are made of, and a text that is no address
ListAddrs ==
    { Lit(0), <<2560, 0>>, <<2560, 256>>, <<2560, 768>>, <<2^15, 0>>, <<49320, 256>>,
      <<49320, 512>>, <<65535, 65280>>, <<65535, 65534>>, MAX_U32 }

ListTexts == { Dotted(a) : a \in ListAddrs } \cup { Str(<<"2","5","6",".","0",".","0",".","0">>) }

AddressLists == UNION { [1..n -> ListTexts] : n \in 0..MaxListLen }

\* addresses and prefix lengths of the blocks compared for containment
BlockAddrs == ListAddrs \cup { <<2560, 511>>, <<2561, 0>>, <<49320, 384>> }

PrefixSamples == {0, 1, 7, 8, 9, 15, 16, 17, 23, 24, 25, 30, 31, 32}

\* the texts before and after the slash of the CIDR strings drawn, and strings with
\* no slash or with two
CidrAddrTexts == { Dotted(a) : a \in BlockAddrs }
                    \cup { Str(<<"2","5","6",".","0",".","0",".","0">>), Str(<<"1","0",".","0",".","1">>) }

CidrPrefixTexts == { DecStr(n) : n \in PrefixSamples }
                      \cup { Str(<<"3","3">>), Str(<<"-","1">>), Str(<<>>), Str(<<"a">>) }

CidrStrings ==
    { Join(<<a, n>>, SLASH) : a \in CidrAddrTexts, n \in CidrPrefixTexts }
        \cup CidrAddrTexts
        \cup { Join(<<a, Str(<<"2","4">>), Str(<<"2","5">>)>>, SLASH) : a \in CidrAddrTexts }

\* the value of the address a.b.c.d
Quad(a, b, c, d) == <<a * 256 + b, c * 256 + d>>

\* the first and last address of every special-use block, of 192.0.0.0/24 and of
\* the blocks next to them, and some addresses of no block
ClassAnchors ==
    { Quad(0, 0, 0, 0), Quad(0, 255, 255, 255),
      Quad(8, 8, 8, 8),
      Quad(10, 0, 0, 0), Quad(10, 255, 255, 255),
      Quad(100, 64, 0, 0), Quad(100, 127, 255, 255),
      Quad(127, 0, 0, 0), Quad(127, 255, 255, 255),
      Quad(169, 254, 0, 0), Quad(169, 254, 255, 255),
      Quad(172, 16, 0, 0), Quad(172, 31, 255, 255),
      Quad(192, 0, 0, 0), Quad(192, 0, 0, 255),
      Quad(192, 0, 2, 0), Quad(192, 0, 2, 255),
      Quad(192, 168, 0, 0), Quad(192, 168, 255, 255),
      Quad(198, 18, 0, 0), Quad(198, 19, 255, 255),
      Quad(198, 51, 100, 0), Quad(198, 51, 100, 255),
      Quad(203, 0, 113, 0), Quad(203, 0, 113, 255),
      Quad(224, 0, 0, 0), Quad(239, 255, 255, 255),
      Quad(240, 0, 0, 0), Quad(255, 255, 255, 254) }

ClassAddrs ==
    { a \in UNION { { Add(x, Lit(d)), Sub(x, Lit(d)) } : x \in ClassAnchors, d \in 0..MaxDelta }
        : IsU32(a) }

ClassTexts == { Dotted(a) : a \in ClassAddrs }

\* addresses of every first octet from 223 to 240, at both ends of the block of the
\* octet and around its first /24
McastAddrs ==
    { Quad(o, r[1], r[2], r[3]) :
        o \in 223..240,
        r \in { <<0, 0, 0>>, <<0, 0, 1>>, <<0, 0, 255>>, <<0, 1, 0>>, <<1, 0, 0>>,
                <<255, 255, 255>> } }
        \cup ClassAddrs

\* octet positions and values, in range and just out of it
OctetPositions == -1..4

OctetValues == {-1, 0, 1, 127, 128, 170, 255, 256}

\* arrays of three, four and five numbers, within an octet and not
OctetArrays == UNION { [1..n -> { Lit(-1), Lit(0), Lit(255), Lit(256) }] : n \in 3..5 }

\* integers around the ends of the address space, non-integers between them, and
\* the three numbers that are not finite
NumberInputs ==
    { IntNum(a) : a \in UNION { { Add(x, Lit(d)), Sub(x, Lit(d)) } : x \in Anchors, d \in 0..MaxDelta } }
        \cup { FracNum(a) : a \in UNION { { Add(x, Lit(d)), Sub(x, Lit(d)) } : x \in Anchors, d \in 0..MaxDelta } }
        \cup { NaN, Infinity, NegInfinity }

\* bit positions, in range and just out of it
BitPositions == {-1, 0, 1, 7, 8, 15, 16, 23, 24, 30, 31, 32}

\* prefix lengths of the two blocks handed to findCommonSupernet
SupernetPrefixes == {0, 8, 16, 23, 24, 32}

\* prefix lengths on both sides of the two ends of 0..32, and those from which
\* 2^(32 - prefix) is lost in a sum with 2^31 or more (54), with 2^30 or more (55),
\* and is 0 (1107)
PrefixesAround == {-2, -1, 0, 16, 32, 33, 34, 53, 54, 55, 1106, 1107}

OutOfRangePrefixes == { p \in PrefixesAround : p < 0 \/ p > 32 }

-----------------------------------------------------------------------------
(* The state machine: one call at a time *)

Init == op = "idle" /\ args = <<>> /\ res = NoVal

Idle == op = "idle"

Call(name, a, r) == op' = name /\ args' = a /\ res' = r

\* the call has returned or thrown: the caller goes on
Return == op /= "idle" /\ op' = "idle" /\ args' = <<>> /\ res' = NoVal

ValidateIPv4 == Idle /\ \E s \in InputStrings : Call("validateIPv4", <<s>>, validateIPv4(s))

ValidateIPv4Strict ==
    Idle /\ \E s \in InputStrings : Call("validateIPv4Strict", <<s>>, validateIPv4Strict(s))

ParseIPv4 ==
    Idle /\ \E s \in InputStrings \cup { Dotted(a) : a \in SampleAddrs } : Call("parseIPv4", <<s>>, parseIPv4(s))

FormatIPv4 == Idle /\ \E n \in SampleAddrs : Call("formatIPv4", <<n>>, Ret(formatIPv4(n)))

AssertIPv4Address ==
    Idle /\ \E s \in InputStrings : Call("assertIPv4Address", <<s>>, assertIPv4Address(s))

CreateIPv4Address ==
    Idle /\ \E s \in InputStrings : Call("createIPv4Address", <<s>>, createIPv4Address(s))

NextParse ==
    \/ ValidateIPv4
    \/ ValidateIPv4Strict
    \/ ParseIPv4
    \/ FormatIPv4
    \/ AssertIPv4Address
    \/ CreateIPv4Address
    \/ Return

SpecParse == Init /\ [][NextParse]_vars

CreateMask ==
    Idle /\ \E n \in (IPV4_MIN_PREFIX_LENGTH - 1)..(IPV4_MAX_PREFIX_LENGTH + 1) :
        Call("createMask", <<n>>, createMask(n))

GetMaskPrefix ==
    Idle /\ \E m \in MaskSamples : Call("getMaskPrefix", <<m>>, getMaskPrefix(m))

CalculatePrefixLengthFromSubnetMask ==
    Idle /\ \E s \in { Dotted(m) : m \in MaskSamples } \cup PaddedStrings :
        Call("calculatePrefixLengthFromSubnetMask", <<s>>,
             calculatePrefixLengthFromSubnetMask(s))

NextMask ==
    \/ CreateMask
    \/ GetMaskPrefix
    \/ CalculatePrefixLengthFromSubnetMask
    \/ Return

SpecMask == Init /\ [][NextMask]_vars

IncrementIP ==
    Idle /\ \E a \in SampleAddrs, amount \in Amounts :
        Call("incrementIP", <<Dotted(a), amount>>, incrementIP(Dotted(a), amount))

DecrementIP ==
    Idle /\ \E a \in SampleAddrs, amount \in Amounts :
        Call("decrementIP", <<Dotted(a), amount>>, decrementIP(Dotted(a), amount))

NextArith ==
    \/ IncrementIP
    \/ DecrementIP
    \/ Return

SpecArith == Init /\ [][NextArith]_vars

\* the address a, or the network address of its block of the given prefix length
BlockOf(a, prefix, aligned) ==
    IF aligned /\ prefix \in 0..32 THEN JsUshr(JsAnd(a, TopBits(prefix)), 0) ELSE a

GetNextSubnet ==
    Idle /\ \E a \in SampleAddrs, p \in 0..32, aligned \in BOOLEAN :
        LET net == Dotted(BlockOf(a, p, aligned))
        IN Call("getNextSubnet", <<net, p>>, getNextSubnet(net, p))

GetPreviousSubnet ==
    Idle /\ \E a \in SampleAddrs, p \in 0..32, aligned \in BOOLEAN :
        LET net == Dotted(BlockOf(a, p, aligned))
        IN Call("getPreviousSubnet", <<net, p>>, getPreviousSubnet(net, p))

GetNextSubnetByMask ==
    Idle /\ \E a \in SampleAddrs, p \in 0..32, aligned \in BOOLEAN :
        LET net  == Dotted(BlockOf(a, p, aligned))
            mask == Dotted(TopBits(p))
        IN Call("getNextSubnetByMask", <<net, mask>>, getNextSubnetByMask(net, mask))

GetPreviousSubnetByMask ==
    Idle /\ \E a \in SampleAddrs, p \in 0..32, aligned \in BOOLEAN :
        LET net  == Dotted(BlockOf(a, p, aligned))
            mask == Dotted(TopBits(p))
        IN Call("getPreviousSubnetByMask", <<net, mask>>,
                getPreviousSubnetByMask(net, mask))

NextSubnet ==
    \/ GetNextSubnet
    \/ GetPreviousSubnet
    \/ GetNextSubnetByMask
    \/ GetPreviousSubnetByMask
    \/ Return

SpecSubnet == Init /\ [][NextSubnet]_vars

SplitSubnet ==
    Idle /\ \E a \in SampleAddrs, cur \in 0..32, more \in (0 - 1)..MaxSplitBits,
               aligned \in BOOLEAN :
        LET net == Dotted(BlockOf(a, cur, aligned))
        IN Call("splitSubnet", <<net, cur, cur + more>>, splitSubnet(net, cur, cur + more))

NextSplit ==
    \/ SplitSubnet
    \/ Return

SpecSplit == Init /\ [][NextSplit]_vars

SummarizeSubnets ==
    Idle /\ \E subnets \in AddressLists :
        Call("summarizeSubnets", <<subnets>>, summarizeSubnets(subnets))

NextSummary ==
    \/ SummarizeSubnets
    \/ Return

SpecSummary == Init /\ [][NextSummary]_vars

CalculateNetworkAddress ==
    Idle /\ \E a \in BlockAddrs, p \in PrefixSamples :
        Call("calculateNetworkAddress", <<Dotted(a), p>>,
             calculateNetworkAddress(Dotted(a), p))

CalculateBroadcastAddress ==
    Idle /\ \E a \in BlockAddrs, p \in PrefixSamples :
        Call("calculateBroadcastAddress", <<Dotted(a), p>>,
             calculateBroadcastAddress(Dotted(a), p))

IsSubnetOf ==
    Idle /\ \E a \in BlockAddrs, b \in BlockAddrs, pA \in PrefixSamples, pB \in PrefixSamples :
        Call("isSubnetOf", <<Dotted(a), pA, Dotted(b), pB>>,
             isSubnetOf(Dotted(a), pA, Dotted(b), pB))

NextContain ==
    \/ CalculateNetworkAddress
    \/ CalculateBroadcastAddress
    \/ IsSubnetOf
    \/ Return

SpecContain == Init /\ [][NextContain]_vars

ParseCIDR == Idle /\ \E s \in CidrStrings : Call("parseCIDR", <<s>>, parseCIDR(s))

NextCidrParse ==
    \/ ParseCIDR
    \/ Return

SpecCidrParse == Init /\ [][NextCidrParse]_vars

CalculateAvailableIPs ==
    Idle /\ \E n \in (IPV4_MIN_PREFIX_LENGTH - 1)..(IPV4_MAX_PREFIX_LENGTH + 1) :
        Call("calculateAvailableIPs", <<n>>, calculateAvailableIPs(n))

GetUsableHostCount ==
    Idle /\ \E m \in MaskSamples :
        Call("getUsableHostCount", <<Dotted(m)>>, getUsableHostCount(Dotted(m)))

NextHosts ==
    \/ CalculateAvailableIPs
    \/ GetUsableHostCount
    \/ Return

SpecHosts == Init /\ [][NextHosts]_vars

GetSpecialIPType ==
    Idle /\ \E ip \in ClassTexts : Call("getSpecialIPType", <<ip>>, Ret(getSpecialIPType(ip)))

IsReservedIP ==
    Idle /\ \E ip \in ClassTexts : Call("isReservedIP", <<ip>>, Ret(isReservedIP(ip)))

IsGlobalUnicastIP ==
    Idle /\ \E ip \in ClassTexts : Call("isGlobalUnicastIP", <<ip>>, Ret(isGlobalUnicastIP(ip)))

\* the calls of the second definition carry its place in the name
GetSpecialIPTypeSecond ==
    Idle /\ \E ip \in ClassTexts :
        Call("getSpecialIPType#2", <<ip>>, Ret(getSpecialIPTypeSecond(ip)))

IsReservedIPSecond ==
    Idle /\ \E ip \in ClassTexts : Call("isReservedIP#2", <<ip>>, Ret(isReservedIPSecond(ip)))

IsGlobalUnicastIPSecond ==
    Idle /\ \E ip \in ClassTexts :
        Call("isGlobalUnicastIP#2", <<ip>>, Ret(isGlobalUnicastIPSecond(ip)))

NextClassify ==
    \/ GetSpecialIPType
    \/ IsReservedIP
    \/ IsGlobalUnicastIP
    \/ GetSpecialIPTypeSecond
    \/ IsReservedIPSecond
    \/ IsGlobalUnicastIPSecond
    \/ Return

SpecClassify == Init /\ [][NextClassify]_vars

GetMulticastType ==
    Idle /\ \E ip \in McastAddrs : Call("getMulticastType", <<ip>>, Ret(getMulticastType(ip)))

NextMulticast ==
    \/ GetMulticastType
    \/ Return

SpecMulticast == Init /\ [][NextMulticast]_vars

SetOctet ==
    Idle /\ \E ip \in SampleAddrs \cup { <<4660, 22136>> }, pos \in OctetPositions, v \in OctetValues :
        Call("setOctet", <<ip, pos, v>>, setOctet(ip, pos, v))

OctetsToBitflag ==
    Idle /\ \E octets \in OctetArrays :
        Call("octetsToBitflag", <<octets>>, Ret(octetsToBitflag(octets)))

NextOctet ==
    \/ SetOctet
    \/ OctetsToBitflag
    \/ Return

SpecOctet == Init /\ [][NextOctet]_vars

NumberToIP ==
    Idle /\ \E num \in NumberInputs : Call("numberToIP", <<num>>, numberToIP(num))

NextNumber ==
    \/ NumberToIP
    \/ Return

SpecNumber == Init /\ [][NextNumber]_vars

ExtractBits ==
    Idle /\ \E n \in Anchors, start \in BitPositions, end \in BitPositions :
        Call("extractBits", <<n, start, end>>, extractBits(n, start, end))

\* the extractBits of bitmask.ts
ExtractBitsOfBitmask ==
    Idle /\ \E n \in Anchors, start \in BitPositions, end \in BitPositions :
        Call("bitmask.extractBits", <<n, start, end>>, extractBitsOfBitmask(n, start, end))

NextBits ==
    \/ ExtractBits
    \/ ExtractBitsOfBitmask
    \/ Return

SpecBits == Init /\ [][NextBits]_vars

FindCommonSupernet ==
    Idle /\ \E a \in BlockAddrs, b \in BlockAddrs, pA \in SupernetPrefixes, pB \in SupernetPrefixes :
        LET netA == Dotted(BlockOf(a, pA, TRUE))
            netB == Dotted(BlockOf(b, pB, TRUE))
        IN Call("findCommonSupernet", <<netA, pA, netB, pB>>,
                findCommonSupernet(netA, pA, netB, pB))

NextSupernet ==
    \/ FindCommonSupernet
    \/ Return

SpecSupernet == Init /\ [][NextSupernet]_vars

IsPrivateIP ==
    Idle /\ \E a \in ClassAddrs : Call("isPrivateIP", <<Dotted(a)>>, Ret(isPrivateIP(Dotted(a))))

\* the two isPrivateIP of classify.ts take the bitflag
IsPrivateIPOfClassify ==
    Idle /\ \E a \in ClassAddrs :
        Call("classify.isPrivateIP", <<a>>, Ret(isPrivateIPOfClassify(a)))

IsPrivateIPOfClassifyShifts ==
    Idle /\ \E a \in ClassAddrs :
        Call("classify.isPrivateIP#2", <<a>>, Ret(isPrivateIPOfClassifyShifts(a)))

NextPrivate ==
    \/ IsPrivateIP
    \/ IsPrivateIPOfClassify
    \/ IsPrivateIPOfClassifyShifts
    \/ Return

SpecPrivate == Init /\ [][NextPrivate]_vars

CidrToSubnetMask ==
    Idle /\ \E n \in (0 - 1)..33 :
        Call("cidrToSubnetMask", <<n>>, cidrToSubnetMask(n))

SubnetMaskToCIDR ==
    Idle /\ \E m \in MaskSamples :
        Call("subnetMaskToCIDR", <<Dotted(m)>>, subnetMaskToCIDR(Dotted(m)))

\* subnetMaskToCIDR(cidrToSubnetMask(n)) for the n that cidrToSubnetMask accepts
SubnetMaskToCIDROfCidrToSubnetMask ==
    Idle /\ \E n \in 0..32 :
        Call("subnetMaskToCIDR(cidrToSubnetMask)", <<n>>,
             subnetMaskToCIDR(cidrToSubnetMask(n).val))

NextMaskText ==
    \/ CidrToSubnetMask
    \/ SubnetMaskToCIDR
    \/ SubnetMaskToCIDROfCidrToSubnetMask
    \/ Return

SpecMaskText == Init /\ [][NextMaskText]_vars

GetIPRange ==
    Idle /\ \E a \in BlockAddrs, p \in PrefixesAround :
        Call("getIPRange", <<Dotted(a), p>>, getIPRange(Dotted(a), p))

\* the calls of the CIDR operations with a prefix length outside 0..32
OutOfRangeCalculateNetworkAddress ==
    Idle /\ \E a \in BlockAddrs, p \in OutOfRangePrefixes :
        Call("calculateNetworkAddress", <<Dotted(a), p>>, calculateNetworkAddress(Dotted(a), p))

OutOfRangeCalculateBroadcastAddress ==
    Idle /\ \E a \in BlockAddrs, p \in OutOfRangePrefixes :
        Call("calculateBroadcastAddress", <<Dotted(a), p>>,
             calculateBroadcastAddress(Dotted(a), p))

OutOfRangeGetNextSubnet ==
    Idle /\ \E a \in BlockAddrs, p \in OutOfRangePrefixes :
        Call("getNextSubnet", <<Dotted(a), p>>, getNextSubnet(Dotted(a), p))

OutOfRangeGetPreviousSubnet ==
    Idle /\ \E a \in BlockAddrs, p \in OutOfRangePrefixes :
        Call("getPreviousSubnet", <<Dotted(a), p>>, getPreviousSubnet(Dotted(a), p))

OutOfRangeSplitSubnet ==
    Idle /\ \E a \in BlockAddrs, cur \in OutOfRangePrefixes, more \in 1..MaxSplitBits :
        Call("splitSubnet", <<Dotted(a), cur, cur + more>>,
             splitSubnet(Dotted(a), cur, cur + more))

NextPrefix ==
    \/ GetIPRange
    \/ OutOfRangeCalculateNetworkAddress
    \/ OutOfRangeCalculateBroadcastAddress
    \/ OutOfRangeGetNextSubnet
    \/ OutOfRangeGetPreviousSubnet
    \/ OutOfRangeSplitSubnet
    \/ Return

SpecPrefix == Init /\ [][NextPrefix]_vars

Next ==
    \/ ValidateIPv4
    \/ ValidateIPv4Strict
    \/ ParseIPv4
    \/ FormatIPv4
    \/ AssertIPv4Address
    \/ CreateIPv4Address
    \/ CreateMask
    \/ GetMaskPrefix
    \/ CalculatePrefixLengthFromSubnetMask
    \/ IncrementIP
    \/ DecrementIP
    \/ GetNextSubnet
    \/ GetPreviousSubnet
    \/ GetNextSubnetByMask
    \/ GetPreviousSubnetByMask
    \/ SplitSubnet
    \/ SummarizeSubnets
    \/ CalculateNetworkAddress
    \/ CalculateBroadcastAddress
    \/ IsSubnetOf
    \/ ParseCIDR
    \/ CalculateAvailableIPs
    \/ GetUsableHostCount
    \/ GetSpecialIPType
    \/ IsReservedIP
    \/ IsGlobalUnicastIP
    \/ GetSpecialIPTypeSecond
    \/ IsReservedIPSecond
    \/ IsGlobalUnicastIPSecond
    \/ GetMulticastType
    \/ SetOctet
    \/ OctetsToBitflag
    \/ NumberToIP
    \/ ExtractBits
    \/ ExtractBitsOfBitmask
    \/ FindCommonSupernet
    \/ IsPrivateIP
    \/ IsPrivateIPOfClassify
    \/ IsPrivateIPOfClassifyShifts
    \/ GetIPRange
    \/ OutOfRangeCalculateNetworkAddress
    \/ OutOfRangeCalculateBroadcastAddress
    \/ OutOfRangeGetNextSubnet
    \/ OutOfRangeGetPreviousSubnet
    \/ OutOfRangeSplitSubnet
    \/ CidrToSubnetMask
    \/ SubnetMaskToCIDR
    \/ SubnetMaskToCIDROfCidrToSubnetMask
    \/ Return

Spec == Init /\ [][Next]_vars

-----------------------------------------------------------------------------
(* What the claims speak of *)

\* a decimal integer 0-255 written without leading zeros
IsCanonicalPart(c) ==
    /\ Len(c) \in 1..3
    /\ \A i \in 1..Len(c) : IsDigit(c[i])
    /\ (Len(c) > 1 => c[1] /= Code["0"])
    /\ DigitsValue(c, 0) <= 255

\* a canonical dotted-decimal string: exactly four such parts, nothing else
IsCanonical(s) ==
    LET parts == Split(s, DOT)
    IN Len(parts) = 4 /\ \A i \in 1..4 : IsCanonicalPart(parts[i])

\* s holds a character that is neither an ASCII digit nor a dot
HasForeignChar(s) == \E i \in 1..Len(s) : ~IsDigit(s[i]) /\ s[i] /= DOT

\* the reason of the lowest-numbered check that s violates, in the order character
\* set, part count, integer, range, leading zero; "" when s violates none
EarliestViolatedCheck(s) ==
    LET parts == Split(s, DOT)
    IN IF HasForeignChar(s) THEN "Invalid character in IP address"
       ELSE IF Len(parts) /= 4 THEN "IPv4 address must have exactly 4 octets"
       ELSE IF \E i \in 1..4 : Len(parts[i]) = 0 THEN "Invalid octet"
       ELSE IF \E i \in 1..4 : DigitsValue(parts[i], 0) > 255 THEN "Octet out of range"
       ELSE IF \E i \in 1..4 : Len(parts[i]) > 1 /\ parts[i][1] = Code["0"]
            THEN "Leading zeros are not allowed"
       ELSE ""

-----------------------------------------------------------------------------
(* Claims *)

\* C1: round trip. Formatting the parse of a canonical dotted-decimal string gives
\* the string back, and parsing the formatted text of a 32-bit value n gives the
\* unsigned n back.
C1_RoundTrip ==
    /\ (op = "parseIPv4" /\ IsCanonical(args[1]))
          => (res.ok /\ formatIPv4(res.val) = args[1])
    /\ op = "formatIPv4" => parseIPv4(res.val) = Ret(args[1])

C1_Witness ==
    /\ op = "parseIPv4"
    /\ args[1] = Str(<<"2","5","5",".","2","5","5",".","2","5","5",".","2","5","5">>)
    /\ res = Ret(MAX_U32)

\* C2: a string holding a character other than a digit or a dot is reported invalid
\* with the "invalid character" reason, whatever else is wrong with it.
C2_ForeignCharRejected ==
    (op = "validateIPv4" /\ HasForeignChar(args[1]))
        => (~res.isValid /\ res.reason.kind = "Invalid character in IP address")

\* C3: validation is syntactic only: every canonical dotted-decimal string is valid,
\* whatever address it denotes, in both validators of the library.
C3_SyntacticOnly ==
    (op \in {"validateIPv4", "validateIPv4Strict"} /\ IsCanonical(args[1]))
        => res.isValid

\* the validator of util/parse.ts alone does accept every canonical string
ParseValidatorSyntacticOnly ==
    (op = "validateIPv4" /\ IsCanonical(args[1])) => res.isValid

\* C4: the reason reported is that of the lowest-numbered check the string violates
\* (character set, part count, integer, range, leading zero), wherever the
\* offending part stands.
C4_EarliestCheckReported ==
    op = "validateIPv4"
        => /\ res.isValid = (EarliestViolatedCheck(args[1]) = "")
           /\ res.reason.kind = EarliestViolatedCheck(args[1])

\* C5: a constructor of the address type returns exactly for the canonical
\* dotted-decimal strings, and what it returns is the canonical string.
C5_ConstructedIsCanonical ==
    op \in {"assertIPv4Address", "createIPv4Address"}
        => /\ res.ok = IsCanonical(args[1])
           /\ res.ok => res.val = args[1]

\* m is n one-bits followed by 32 - n zero-bits, for some n
IsContiguousMask(m) == \E n \in 0..32 : m = TopBits(n)

\* the 32-bit value a canonical dotted-decimal string denotes
ValueOf(s) == parseIPv4(s).val

\* C6: for every n in 0..32, createMask(n) is the unsigned 32-bit value with exactly
\* the top n bits set, and getMaskPrefix gives n back for it.
C6_MaskPrefixInverse ==
    /\ (op = "createMask" /\ args[1] \in 0..32)
          => (res = Ret(TopBits(args[1])) /\ getMaskPrefix(res.val) = Ret(args[1]))
    /\ \A n \in 0..32 :
          (op = "getMaskPrefix" /\ createMask(n) = Ret(args[1])) => res = Ret(n)

C6_Witness ==
    /\ op = "getMaskPrefix"
    /\ createMask(24) = Ret(args[1])
    /\ args[1] = <<65535, 65280>>
    /\ res = Ret(24)

\* C7: getMaskPrefix and calculatePrefixLengthFromSubnetMask fail for every 32-bit
\* value that is not a contiguous mask: none is mapped to a prefix length.
C7_NonContiguousRejected ==
    /\ (op = "getMaskPrefix" /\ ~IsContiguousMask(args[1]))
          => (~res.ok /\ res.err.class = "IPv4ValidationError")
    /\ (op = "calculatePrefixLengthFromSubnetMask" /\ IsCanonical(args[1])
           /\ ~IsContiguousMask(ValueOf(args[1])))
          => (~res.ok /\ res.err.class = "IPv4ValidationError")

C7_Witness ==
    /\ op = "getMaskPrefix"
    /\ args[1] = <<65535, 256>>
    /\ res = Throw("IPv4ValidationError", "Invalid subnet mask")

\* C8: incrementIP(ip, a) fails whenever value(ip) + a is outside [0, 2^32 - 1], and
\* decrementIP(ip, a) whenever value(ip) - a is; what either returns is the exact
\* sum or difference, never one wrapped modulo 2^32.
C8_ArithmeticNeverWraps ==
    /\ op = "incrementIP" =>
          LET sum == Add(ValueOf(args[1]), args[2])
          IN IF IsU32(sum) THEN res.ok => res.val = Dotted(sum) ELSE ~res.ok
    /\ op = "decrementIP" =>
          LET diff == Sub(ValueOf(args[1]), args[2])
          IN IF IsU32(diff) THEN res.ok => res.val = Dotted(diff) ELSE ~res.ok

\* C9: getNextSubnet fails when net + 2^(32-p) exceeds 2^32 - 1 and getPreviousSubnet
\* when net - 2^(32-p) is negative, in core/cidr.ts and in operations.ts alike; what
\* they return is the exact sum or difference, never a wrapped one.
C9_SubnetStepNeverWraps ==
    /\ op = "getNextSubnet" =>
          LET next == Add(ValueOf(args[1]), Pow2(32 - args[2]))
          IN IF IsU32(next) THEN res.ok => res.val = Dotted(next) ELSE ~res.ok
    /\ op = "getPreviousSubnet" =>
          LET prev == Sub(ValueOf(args[1]), Pow2(32 - args[2]))
          IN IF IsU32(prev) THEN res.ok => res.val = Dotted(prev) ELSE ~res.ok
    /\ op = "getNextSubnetByMask" =>
          LET size == Add(Sub(MAX_U32, ValueOf(args[2])), Lit(1))
              next == Add(ValueOf(args[1]), size)
          IN IF IsU32(next) THEN res.ok => res.val = Dotted(next) ELSE ~res.ok
    /\ op = "getPreviousSubnetByMask" =>
          LET size == Add(Sub(MAX_U32, ValueOf(args[2])), Lit(1))
              prev == Sub(ValueOf(args[1]), size)
          IN IF IsU32(prev) THEN res.ok => res.val = Dotted(prev) ELSE ~res.ok

\* the functions of core/cidr.ts taken alone do fail rather than wrap, with the
\* subnet error, and return the exact neighbour otherwise
CidrSubnetStepNeverWraps ==
    /\ op = "getNextSubnet" =>
          LET next == Add(ValueOf(args[1]), Pow2(32 - args[2]))
          IN IF IsU32(next) THEN res = Ret(Dotted(next))
             ELSE ~res.ok /\ res.err.class = "IPv4SubnetError"
    /\ op = "getPreviousSubnet" =>
          LET prev == Sub(ValueOf(args[1]), Pow2(32 - args[2]))
          IN IF IsU32(prev) THEN res = Ret(Dotted(prev))
             ELSE ~res.ok /\ res.err.class = "IPv4SubnetError"

\* C10: for a network address aligned to currentPrefix and
\* 0 <= currentPrefix < newPrefix <= 32, splitSubnet returns exactly
\* 2^(newPrefix - currentPrefix) addresses in ascending order, the i-th (from 0)
\* being network + i * 2^(32 - newPrefix).
C10_SplitEnumeratesBlocks ==
    (/\ op = "splitSubnet"
     /\ 0 <= args[2] /\ args[2] < args[3] /\ args[3] <= 32
     /\ JsUshr(JsAnd(ValueOf(args[1]), TopBits(args[2])), 0) = ValueOf(args[1]))
        => /\ res.ok
           /\ Len(res.val) = 2^(args[3] - args[2])
           /\ \A i \in 0..(Len(res.val) - 1) :
                 res.val[i + 1] = Dotted(Add(ValueOf(args[1]), Mul(i, Pow2(32 - args[3]))))
           /\ \A i \in 1..(Len(res.val) - 1) :
                 Lt(ValueOf(res.val[i]), ValueOf(res.val[i + 1]))

C10_Witness ==
    /\ op = "splitSubnet"
    /\ args = << Str(<<"1","0",".","0",".","0",".","0">>), 8, 10 >>
    /\ res.ok
    /\ Len(res.val) = 4
    /\ res.val[4] = Str(<<"1","0",".","1","9","2",".","0",".","0">>)

\* C11: splitSubnet fails whenever newPrefix <= currentPrefix (newPrefix equal to
\* currentPrefix included) or newPrefix > 32: it returns no list in those cases.
C11_SplitRejectsBadPrefix ==
    (op = "splitSubnet" /\ (args[3] <= args[2] \/ args[3] > 32))
        => (~res.ok /\ res.err.class = "IPv4SubnetError")

C11_Witness ==
    /\ op = "splitSubnet"
    /\ args = << Str(<<"1","0",".","0",".","0",".","0">>), 8, 8 >>
    /\ res = Throw("IPv4SubnetError", "Invalid new prefix length for splitting")

\* a size threshold below the largest split the calls ask for
SplitThreshold == 2^(MaxSplitBits - 1)

\* C12: splitSubnet guards against unreasonably large splits: the work it does and
\* the array it builds stay within a size threshold, whatever
\* newPrefix - currentPrefix is; beyond the threshold it fails instead.
C12_SplitWorkBounded ==
    op = "splitSubnet"
        => /\ splitSubnetPasses(args[1], args[2], args[3]) <= SplitThreshold
           /\ res.ok => Len(res.val) <= SplitThreshold

\* the addresses v and w agree on their top q bits
SameBlock(v, w, q) == applyMask(v, TopBits(q)) = applyMask(w, TopBits(q))

\* C13: for a list of at least two addresses summarizeSubnets returns a block
\* (network, prefix) with network aligned to prefix, every input address in
\* [network, network + 2^(32-prefix) - 1], and no block with a longer prefix holding
\* all the inputs.
C13_SummaryIsSmallestBlock ==
    (/\ op = "summarizeSubnets"
     /\ Len(args[1]) >= 2
     /\ \A i \in 1..Len(args[1]) : IsCanonical(args[1][i]))
        => /\ res.ok
           /\ res.val[2] \in 0..32
           /\ LET network == ValueOf(res.val[1])
                  prefix  == res.val[2]
                  last    == Sub(Add(network, Pow2(32 - prefix)), Lit(1))
              IN /\ applyMask(network, TopBits(prefix)) = network
                 /\ \A i \in 1..Len(args[1]) :
                       /\ ~Lt(ValueOf(args[1][i]), network)
                       /\ ~Gt(ValueOf(args[1][i]), last)
                 /\ \A q \in (prefix + 1)..32 :
                       \E i \in 1..Len(args[1]) :
                           ~SameBlock(ValueOf(args[1][i]), ValueOf(args[1][1]), q)

\* C14: isSubnetOf(A, pA, B, pB) is true exactly when pA > pB and A and B agree on
\* their top pB bits; with pA = pB it is false, also for A = B.
C14_SubnetOfIsStrict ==
    op = "isSubnetOf"
        => res = Ret(args[2] > args[4]
                     /\ SameBlock(ValueOf(args[1]), ValueOf(args[3]), args[4]))

C14_Witness ==
    /\ op = "isSubnetOf"
    /\ args[1] = args[3] /\ args[1] = Dotted(<<2560, 0>>)
    /\ args[2] = 8 /\ args[4] = 8
    /\ res = Ret(FALSE)

\* C15: whenever isSubnetOf(A, pA, B, pB) is true, the network address of B's block
\* is at most that of A's block and the broadcast address of A's block is at most
\* that of B's, as unsigned 32-bit values: A's block lies within B's.
C15_SubnetOfImpliesContained ==
    (op = "isSubnetOf" /\ res = Ret(TRUE))
        => LET netA == calculateNetworkAddress(args[1], args[2])
               netB == calculateNetworkAddress(args[3], args[4])
               bcA  == calculateBroadcastAddress(args[1], args[2])
               bcB  == calculateBroadcastAddress(args[3], args[4])
           IN /\ netA.ok /\ netB.ok /\ bcA.ok /\ bcB.ok
              /\ ~Gt(ValueOf(netB.val), ValueOf(netA.val))
              /\ ~Gt(ValueOf(netA.val), ValueOf(bcA.val))
              /\ ~Gt(ValueOf(bcA.val), ValueOf(bcB.val))

C15_Witness ==
    /\ op = "isSubnetOf"
    /\ args = << Dotted(<<2560, 256>>), 24, Dotted(<<2560, 0>>), 8 >>
    /\ res = Ret(TRUE)
    /\ calculateBroadcastAddress(args[1], args[2]) = Ret(Dotted(<<2560, 511>>))
    /\ calculateBroadcastAddress(args[3], args[4]) = Ret(Dotted(<<2815, 65535>>))

\* a prefix length written in decimal without sign or leading zero
IsPrefixText(s) == \E n \in 0..32 : s = DecStr(n)

\* C16: parseCIDR accepts a CIDR string whose address has non-zero host bits and
\* returns the network address: for a valid "a.b.c.d/p" the address returned is
\* a.b.c.d AND mask(p), with every bit below the prefix zero.
C16_ParseCidrNormalizes ==
    LET parts == Split(args[1], SLASH)
    IN (op = "parseCIDR" /\ Len(parts) = 2 /\ IsCanonical(parts[1]) /\ IsPrefixText(parts[2]))
          => LET prefix == DigitsValue(parts[2], 0)
             IN res = Ret(<< Dotted(applyMask(ValueOf(parts[1]), TopBits(prefix))), prefix >>)

\* what parseCIDR does return for a valid string is the address text as written
ParseCidrReturnsTextAsWritten ==
    LET parts == Split(args[1], SLASH)
    IN (op = "parseCIDR" /\ Len(parts) = 2 /\ IsCanonical(parts[1]) /\ IsPrefixText(parts[2]))
          => res = Ret(<< parts[1], DigitsValue(parts[2], 0) >>)

\* the usable hosts of a block of prefix length p
UsableHosts(p) ==
    IF p = 32 THEN Lit(1) ELSE IF p = 31 THEN Lit(2) ELSE Sub(Pow2(32 - p), Lit(2))

\* C17: the usable-host count of prefix p is 2^(32-p) - 2 for p in 0..30, 2 for
\* p = 31 and 1 for p = 32, in calculateAvailableIPs and in getUsableHostCount (which
\* is given the mask of the prefix).
C17_UsableHostCount ==
    /\ (op = "calculateAvailableIPs" /\ args[1] \in 0..32)
          => res = Ret(UsableHosts(args[1]))
    /\ \A p \in 0..32 :
          (op = "getUsableHostCount" /\ args[1] = Dotted(TopBits(p)))
              => res = Ret(UsableHosts(p))

\* calculateAvailableIPs taken alone gives these counts
AvailableIPsUsableHostCount ==
    (op = "calculateAvailableIPs" /\ args[1] \in 0..32) => res = Ret(UsableHosts(args[1]))

\* and so does getUsableHostCount for the prefixes up to 30
HostCountUpTo30 ==
    \A p \in 0..30 :
        (op = "getUsableHostCount" /\ args[1] = Dotted(TopBits(p)))
            => res = Ret(UsableHosts(p))

\* the address of value a lies in the block base/p
InCidr(a, base, p) == ShrBits(a, 32 - p) = ShrBits(base, 32 - p)

InDocumentation(a) ==
    \/ InCidr(a, Quad(192, 0, 2, 0), 24)
    \/ InCidr(a, Quad(198, 51, 100, 0), 24)
    \/ InCidr(a, Quad(203, 0, 113, 0), 24)

InBenchmarking(a) == InCidr(a, Quad(198, 18, 0, 0), 15)

InSharedAddressSpace(a) == InCidr(a, Quad(100, 64, 0, 0), 10)

\* the tag the claim gives the addresses of the three blocks
SpecificTagHolds(a) ==
    /\ InDocumentation(a) => res = Ret("Documentation")
    /\ InBenchmarking(a) => res = Ret("Benchmarking")
    /\ InSharedAddressSpace(a) => res = Ret("Shared Address Space")

\* C18: getSpecialIPType returns 'Documentation' for every address of 192.0.2.0/24,
\* 198.51.100.0/24 and 203.0.113.0/24, 'Benchmarking' for every address of
\* 198.18.0.0/15 and 'Shared Address Space' for every address of 100.64.0.0/10,
\* never 'Reserved', in both definitions of the function.
C18_SpecificBeforeReserved ==
    \A a \in ClassAddrs :
        (op \in {"getSpecialIPType", "getSpecialIPType#2"} /\ args[1] = Dotted(a))
            => SpecificTagHolds(a)

\* the first definition taken alone returns these tags
FirstDefinitionSpecificBeforeReserved ==
    \A a \in ClassAddrs :
        (op = "getSpecialIPType" /\ args[1] = Dotted(a)) => SpecificTagHolds(a)

\* the second definition answers 'Reserved' for a documentation address
SecondDefinitionReservedFirst ==
    /\ op = "getSpecialIPType#2"
    /\ args[1] = IPText(198, 51, 100, 1)
    /\ res = Ret("Reserved")

\* the ten tags
Tags ==
    { "Private", "Loopback", "Link-local", "Multicast", "Broadcast", "Documentation",
      "Benchmarking", "Shared Address Space", "Reserved", "Public" }

\* none of the nine predicates of the first definition holds of the address
NoneOfNine(ip) ==
    ~(\/ isPrivateIP(ip) \/ isLoopbackIP(ip) \/ isLinkLocalIP(ip) \/ isMulticastIP(ip)
      \/ isBroadcastIP(ip) \/ isDocumentationIP(ip) \/ isBenchmarkingIP(ip)
      \/ isSharedAddressSpaceIP(ip) \/ isReservedIP(ip))

\* none of the nine predicates of the second definition
NoneOfNineSecond(ip) ==
    ~(\/ isPrivateIP(ip) \/ isLoopbackIP(ip) \/ isLinkLocalIP(ip) \/ isMulticastIP(ip)
      \/ isBroadcastIP(ip) \/ isDocumentationIP(ip) \/ isBenchmarkingIP(ip)
      \/ isSharedAddressSpaceIP(ip) \/ isReservedIPSecond(ip))

\* C19: getSpecialIPType returns one of the ten tags, and 'Public' exactly when none
\* of the nine predicates holds of the address; isGlobalUnicastIP is true exactly
\* when the tag is 'Public'. Stated of each definition with its own predicates.
C19_ClassificationPartition ==
    /\ op = "getSpecialIPType"
          => /\ res.ok /\ res.val \in Tags
             /\ (res.val = "Public") <=> NoneOfNine(args[1])
    /\ op = "isGlobalUnicastIP"
          => /\ res.ok /\ res.val \in BOOLEAN
             /\ res.val <=> (getSpecialIPType(args[1]) = "Public")
    /\ op = "getSpecialIPType#2"
          => /\ res.ok /\ res.val \in Tags
             /\ (res.val = "Public") <=> NoneOfNineSecond(args[1])
    /\ op = "isGlobalUnicastIP#2"
          => /\ res.ok /\ res.val \in BOOLEAN
             /\ res.val <=> (getSpecialIPTypeSecond(args[1]) = "Public")

\* an address of no special use is tagged 'Public'
C19_Witness ==
    /\ op = "getSpecialIPType"
    /\ args[1] = IPText(8, 8, 8, 8)
    /\ NoneOfNine(args[1])
    /\ res = Ret("Public")

\* a reserved address is not global unicast
ReservedNotGlobalUnicast ==
    /\ op = "isGlobalUnicastIP"
    /\ args[1] = IPText(240, 0, 0, 1)
    /\ isReservedIP(args[1])
    /\ res = Ret(FALSE)

\* the reserved blocks the claim names: 0.0.0.0/8, 192.0.0.0/24, and 240.0.0.0/4
\* without 255.255.255.255
InReservedZero(a) == InCidr(a, Quad(0, 0, 0, 0), 8)

InReservedProtocol(a) == InCidr(a, Quad(192, 0, 0, 0), 24)

InReservedFuture(a) == InCidr(a, Quad(240, 0, 0, 0), 4) /\ a /= MAX_U32

\* the answers of isReservedIP and getSpecialIPType, either definition, on a reserved address
ReservedAnswer ==
    /\ op \in {"isReservedIP", "isReservedIP#2"} => res = Ret(TRUE)
    /\ op \in {"getSpecialIPType", "getSpecialIPType#2"} => res = Ret("Reserved")

\* C20: isReservedIP is true, and getSpecialIPType returns 'Reserved', for every
\* address of 0.0.0.0/8, of 192.0.0.0/24, and of 240.0.0.0/4 other than
\* 255.255.255.255.
C20_ReservedBlocks ==
    \A a \in ClassAddrs :
        (/\ op \in {"isReservedIP", "getSpecialIPType", "isReservedIP#2", "getSpecialIPType#2"}
         /\ args[1] = Dotted(a)
         /\ InReservedZero(a) \/ InReservedProtocol(a) \/ InReservedFuture(a))
            => ReservedAnswer

\* both definitions answer as claimed on 240.0.0.0/4 without 255.255.255.255
ReservedFutureBlock ==
    \A a \in ClassAddrs :
        (/\ op \in {"isReservedIP", "getSpecialIPType", "isReservedIP#2", "getSpecialIPType#2"}
         /\ args[1] = Dotted(a)
         /\ InReservedFuture(a))
            => ReservedAnswer

\* the first definition answers as claimed on 0.0.0.0/8 too
FirstDefinitionReservedZeroBlock ==
    \A a \in ClassAddrs :
        (/\ op \in {"isReservedIP", "getSpecialIPType"}
         /\ args[1] = Dotted(a)
         /\ InReservedZero(a))
            => ReservedAnswer

\* neither definition holds 192.0.0.0/24 reserved
ProtocolBlockNotReserved ==
    \A a \in ClassAddrs :
        (op /= "idle" /\ args[1] = Dotted(a) /\ InReservedProtocol(a))
            => /\ op \in {"isReservedIP", "isReservedIP#2"} => res = Ret(FALSE)
               /\ op \in {"getSpecialIPType", "getSpecialIPType#2"} => res = Ret("Public")

\* the second definition does not hold 0.0.0.0/8 reserved
SecondDefinitionZeroBlockPublic ==
    \A a \in ClassAddrs :
        (op /= "idle" /\ args[1] = Dotted(a) /\ InReservedZero(a))
            => /\ op = "isReservedIP#2" => res = Ret(FALSE)
               /\ op = "getSpecialIPType#2" => res = Ret("Public")

\* the first octet of the address of value a
FirstOctet(a) == a[1] \div 256

\* the multicast type the claim gives the address of value a
MulticastTypeClaimed(a) ==
    LET o == FirstOctet(a)
    IN IF o < 224 \/ o > 239 THEN "Not Multicast"
       ELSE IF o = 224 THEN "Well-Known Multicast"
       ELSE IF o <= 231 THEN "Transient Multicast"
       ELSE IF o <= 235 THEN "Source-Specific Multicast"
       ELSE IF o <= 237 THEN "GLOP Addressing"
       ELSE IF o = 238
            THEN IF InCidr(a, Quad(238, 0, 0, 0), 24)
                 THEN "Unicast-Prefix-based Multicast"
                 ELSE "Reserved"
       ELSE "Administratively Scoped"

\* C21: getMulticastType returns, by first octet, Well-Known for 224, Transient for
\* 225 to 231, Source-Specific for 232 to 235, GLOP for 236 and 237,
\* Unicast-Prefix-based for 238.0.0.0/24 and Reserved for the rest of 238,
\* Administratively-Scoped for 239, and 'Not Multicast' outside 224.0.0.0/4.
C21_MulticastTypeByFirstOctet ==
    op = "getMulticastType" => res = Ret(MulticastTypeClaimed(args[1]))

\* it does so for every address whose first octet is not one of 226 to 231
MulticastTypeOutside226To231 ==
    (op = "getMulticastType" /\ FirstOctet(args[1]) \notin 226..231)
        => res = Ret(MulticastTypeClaimed(args[1]))

\* and answers 'Reserved' for every address of those six first octets
MulticastType226To231Reserved ==
    (op = "getMulticastType" /\ FirstOctet(args[1]) \in 226..231) => res = Ret("Reserved")

\* octet p, counted from the most significant, of the 32-bit value a
ByteOf(a, p) ==
    IF p = 0 THEN a[1] \div 256
    ELSE IF p = 1 THEN a[1] % 256
    ELSE IF p = 2 THEN a[2] \div 256
    ELSE a[2] % 256

\* C22: for every 32-bit ip, position p in 0..3 and value v in 0..255,
\* setOctet(ip, p, v) returns an unsigned 32-bit value whose octet p is v and whose
\* other three octets are those of ip.
C22_SetOctetPreservesOthers ==
    (op = "setOctet" /\ args[2] \in 0..3 /\ args[3] \in 0..255)
        => /\ res.ok
           /\ IsU32(res.val)
           /\ ByteOf(res.val, args[2]) = args[3]
           /\ \A q \in 0..3 \ {args[2]} : ByteOf(res.val, q) = ByteOf(args[1], q)

\* the third octet of 0x12345678 is set to 0xAA
C22_Witness ==
    /\ op = "setOctet"
    /\ args = << <<4660, 22136>>, 2, 170 >>
    /\ res = Ret(<<4660, 43640>>)

\* the array has four components, each an integer from 0 to 255
IsOctetArray(octets) ==
    Len(octets) = 4 /\ \A i \in 1..4 : ~Lt(octets[i], Lit(0)) /\ ~Gt(octets[i], Lit(255))

\* C23: octetsToBitflag fails whenever a component is outside 0..255 or the input
\* does not have exactly 4 components; it never makes a 32-bit result of such input.
C23_OctetsToBitflagRejects ==
    (op = "octetsToBitflag" /\ ~IsOctetArray(args[1])) => ~res.ok

\* what it returns instead: a component is cut to its low bits or ORed over the
\* octets above it, a missing one is read as 0, a fifth one is ignored
OctetsToBitflagCoerces ==
    /\ (op = "octetsToBitflag" /\ args[1] = <<Lit(0), Lit(0), Lit(0), Lit(256)>>)
          => res = Ret(Quad(0, 0, 1, 0))
    /\ (op = "octetsToBitflag" /\ args[1] = <<Lit(-1), Lit(0), Lit(0), Lit(0)>>)
          => res = Ret(Quad(255, 0, 0, 0))
    /\ (op = "octetsToBitflag" /\ args[1] = <<Lit(255), Lit(0), Lit(255)>>)
          => res = Ret(Quad(255, 0, 255, 0))
    /\ (op = "octetsToBitflag" /\ args[1] = <<Lit(255), Lit(0), Lit(255), Lit(0), Lit(255)>>)
          => res = Ret(Quad(255, 0, 255, 0))

\* C24: numberToIP fails for every input that is negative, not an integer, not
\* finite or greater than 0xFFFFFFFF, and returns an address only for the integers
\* from 0 to 2^32 - 1.
C24_NumberToIPRejects ==
    op = "numberToIP"
        => (res.ok <=> (args[1].kind = "int" /\ IsU32(args[1].val)))

\* it does so for the integers and for the two infinities
NumberToIPOnIntegers ==
    (op = "numberToIP" /\ args[1].kind \in {"int", "inf", "-inf"})
        => (res.ok <=> (args[1].kind = "int" /\ IsU32(args[1].val)))

\* NaN and the non-integers between 0 and 2^32 - 1 are formatted as addresses
NumberToIPCoerces ==
    /\ (op = "numberToIP" /\ args[1] = NaN) => res = Ret(IPText(0, 0, 0, 0))
    /\ (op = "numberToIP" /\ args[1] = FracNum(Lit(1))) => res = Ret(IPText(0, 0, 0, 1))
    /\ (op = "numberToIP" /\ args[1].kind = "frac" /\ IsU32(args[1].val) /\ args[1].val /= MAX_U32)
          => res = Ret(Dotted(args[1].val))

\* floor(n / 2^start) mod 2^(end - start + 1) of the unsigned 32-bit n, for
\* 0 <= start <= end <= 31
BitsOf(n, start, end) ==
    LET shifted == ShrBits(n, start)
        width   == end - start + 1
    IN IF width = 32 THEN shifted ELSE ShrBits(ShlBits(shifted, 32 - width), 32 - width)

\* what the claim says of a call of extractBits
ExtractBitsAsClaimed ==
    IF args[2] >= 0 /\ args[2] <= args[3] /\ args[3] <= 31
    THEN res = Ret(BitsOf(args[1], args[2], args[3]))
    ELSE ~res.ok

\* C25: for every unsigned 32-bit n and 0 <= start <= end <= 31, the full range
\* included, extractBits(n, start, end) is floor(n / 2^start) mod 2^(end-start+1),
\* non-negative; it fails when start > end or a bound is outside 0..31. Stated of
\* the extractBits of basic.ts and of bitmask.ts.
C25_ExtractBits ==
    op \in {"extractBits", "bitmask.extractBits"} => ExtractBitsAsClaimed

\* the extractBits of basic.ts taken alone is as claimed
BasicExtractBits ==
    op = "extractBits" => ExtractBitsAsClaimed

\* the one of bitmask.ts is as claimed except on the full range, where it returns 0
BitmaskExtractBits ==
    op = "bitmask.extractBits"
        => IF args[2] = 0 /\ args[3] = 31 THEN res = Ret(Lit(0)) ELSE ExtractBitsAsClaimed

\* the smaller of two prefix lengths
MinPrefix(p, q) == IF p <= q THEN p ELSE q

\* the prefix length of the smallest block holding the blocks A/pA and B/pB: the
\* longest q up to min(pA, pB) on whose top q bits A and B agree
SupernetPrefix(A, pA, B, pB) ==
    CHOOSE q \in 0..MinPrefix(pA, pB) :
        /\ SameBlock(A, B, q)
        /\ \A r \in (q + 1)..MinPrefix(pA, pB) : ~SameBlock(A, B, r)

\* C26: findCommonSupernet(A, pA, B, pB) returns a block [network, prefix] that
\* holds both blocks, prefix <= min(pA, pB) and both blocks inside network/prefix,
\* and is the smallest such block; for two identical blocks A/p it returns A/p.
C26_CommonSupernet ==
    op = "findCommonSupernet"
        => LET A == ValueOf(args[1])
               B == ValueOf(args[3])
               q == SupernetPrefix(A, args[2], B, args[4])
           IN res = Ret(<< Dotted(applyMask(A, TopBits(q))), q >>)

\* what is returned is the block of the leading one-bits of A xor B, whatever the two
\* prefix lengths: two identical blocks A/p give A/32
SupernetOfIdenticalBlocks ==
    (op = "findCommonSupernet" /\ args[1] = args[3] /\ args[2] = args[4])
        => res = Ret(<< args[1], 32 >>)

\* the documented example gives 192.168.1.0/32
SupernetOfDocumentedExample ==
    (op = "findCommonSupernet"
        /\ args = << IPText(192, 168, 1, 0), 24, IPText(192, 168, 2, 0), 24 >>)
        => res = Ret(<< IPText(192, 168, 1, 0), 32 >>)

\* the address of value a lies in one of the three private blocks
InPrivate(a) ==
    \/ InCidr(a, Quad(10, 0, 0, 0), 8)
    \/ InCidr(a, Quad(172, 16, 0, 0), 12)
    \/ InCidr(a, Quad(192, 168, 0, 0), 16)

\* C27: each implementation of isPrivateIP returns true exactly for the addresses of
\* 10.0.0.0/8, 172.16.0.0/12 and 192.168.0.0/16 and false for every other address.
C27_PrivateBlocks ==
    /\ \A a \in ClassAddrs :
          (op = "isPrivateIP" /\ args[1] = Dotted(a)) => res = Ret(InPrivate(a))
    /\ op \in {"classify.isPrivateIP", "classify.isPrivateIP#2"}
          => res = Ret(InPrivate(args[1]))

\* the isPrivateIP of special.ts and the one of classify.ts that parses its constants
\* are as claimed
PrivateBlocksByRangeAndParse ==
    /\ \A a \in ClassAddrs :
          (op = "isPrivateIP" /\ args[1] = Dotted(a)) => res = Ret(InPrivate(a))
    /\ op = "classify.isPrivateIP" => res = Ret(InPrivate(args[1]))

\* the one that builds its constants with shifts is true on 10.0.0.0/8 only
PrivateBlocksByShifts ==
    op = "classify.isPrivateIP#2" => res = Ret(InCidr(args[1], Quad(10, 0, 0, 0), 8))

\* the CIDR operations whose second argument is a prefix length
PrefixOperations ==
    { "getIPRange", "calculateNetworkAddress", "calculateBroadcastAddress",
      "getNextSubnet", "getPreviousSubnet", "splitSubnet" }

\* C28: getIPRange, calculateNetworkAddress, calculateBroadcastAddress,
\* getNextSubnet, getPreviousSubnet and splitSubnet (for its currentPrefix) fail when
\* the prefix length is not an integer in 0..32.
C28_PrefixOutOfRangeFails ==
    (op \in PrefixOperations /\ args[2] \notin 0..32) => ~res.ok

\* the three operations that make a mask of the prefix length do fail
MaskOperationsRejectPrefix ==
    (/\ op \in {"getIPRange", "calculateNetworkAddress", "calculateBroadcastAddress"}
     /\ args[2] \notin 0..32)
        => ~res.ok

\* with a prefix length above 32 the subnet size is below 1: getNextSubnet returns
\* the subnet it was given, except that 255.255.255.255 overflows while the size is
\* large enough (prefix up to 53) to change the sum
NextSubnetWithLongPrefix ==
    (op = "getNextSubnet" /\ args[2] > 32)
        => res = IF args[1] = Dotted(MAX_U32) /\ args[2] <= 53
                 THEN Throw("IPv4SubnetError",
                            "No next subnet available (address space overflow)")
                 ELSE Ret(args[1])

\* getPreviousSubnet with a prefix length above 32 returns the address before the
\* one it was given while the size changes the difference (prefix up to 53 for every
\* address but 0.0.0.0, and 54 for 128.0.0.0), and the address it was given once the
\* size is lost; 0.0.0.0 underflows until the size is 0 (prefix 1107)
SubnetStepWithLongPrefix ==
    (op = "getPreviousSubnet" /\ args[2] > 32)
        => LET a    == ValueOf(args[1])
               p    == args[2]
               back == Ret(Dotted(Sub(a, Lit(1))))
               same == Ret(args[1])
           IN /\ (a = Lit(0) /\ p <= 1106)
                    => res = Throw("IPv4SubnetError",
                                   "No previous subnet available (address space underflow)")
              /\ (a = Lit(0) /\ p >= 1107) => res = same
              /\ (a /= Lit(0) /\ p <= 53) => res = back
              /\ (a /= Lit(0) /\ p >= 1106) => res = same
              /\ (a = MAX_U32 /\ p >= 54) => res = same
              /\ (a = Pow2(31) /\ p = 54) => res = back
              /\ (a = Pow2(31) /\ p >= 55) => res = same
              /\ (a = Quad(10, 0, 0, 0) /\ p <= 57) => res = back

\* with a negative currentPrefix splitSubnet returns a list
SplitWithNegativePrefix ==
    (op = "splitSubnet" /\ args[2] < 0 /\ args[3] <= 32) => res.ok

\* C29: for every integer n in 0..32, subnetMaskToCIDR(cidrToSubnetMask(n)) is n.
C29_MaskTextRoundTrip ==
    op = "subnetMaskToCIDR(cidrToSubnetMask)" => (res.ok /\ res.val = args[1])

\* cidrToSubnetMask writes the mask of n leading ones for n in 0..32 and fails otherwise
CidrToSubnetMaskLeadingOnes ==
    op = "cidrToSubnetMask"
        => res = IF args[1] \in 0..32 THEN Ret(Dotted(TopBits(args[1])))
                 ELSE Throw("IPv4ArithmeticError", "Invalid CIDR notation")

\* subnetMaskToCIDR compares an unsigned value with a signed one: it accepts the mask
\* 0.0.0.0 and no other
SubnetMaskToCIDRAcceptsOnlyZero ==
    op = "subnetMaskToCIDR" => (res.ok <=> args[1] = Dotted(Lit(0)))

\* the round trip through the text gives n for n = 0 and fails for every other n
MaskTextRoundTripOnlyZero ==
    op = "subnetMaskToCIDR(cidrToSubnetMask)"
        => res = IF args[1] = 0 THEN Ret(0)
                 ELSE Throw("IPv4ArithmeticError", "Invalid subnet mask")

\* the calls of splitSubnet that pass its test of the two prefix lengths
SplitAccepted == op = "splitSubnet" /\ 0 <= args[2] /\ args[2] < args[3] /\ args[3] <= 32

\* network + i * 2^(32 - newPrefix), with no reduction modulo 2^32
SplitSum(i) == Add(ValueOf(args[1]), Mul(i, Pow2(32 - args[3])))

SplitCount == 2^(args[3] - args[2])

\* C30: for the inputs splitSubnet accepts, every returned address is
\* network + i * 2^(32 - newPrefix) computed without reduction modulo 2^32, and the
\* call fails if any of these sums exceeds 2^32 - 1.
C30_SplitNeverWraps ==
    SplitAccepted
        => IF \E i \in 0..(SplitCount - 1) : Gt(SplitSum(i), MAX_U32)
           THEN ~res.ok
           ELSE /\ res.ok
                /\ Len(res.val) = SplitCount
                /\ \A i \in 0..(SplitCount - 1) : res.val[i + 1] = Dotted(SplitSum(i))

\* while no sum exceeds 2^32 - 1 the addresses returned are the sums
SplitSumsWithinRange ==
    (SplitAccepted /\ \A i \in 0..(SplitCount - 1) : ~Gt(SplitSum(i), MAX_U32))
        => /\ res.ok
           /\ Len(res.val) = SplitCount
           /\ \A i \in 0..(SplitCount - 1) : res.val[i + 1] = Dotted(SplitSum(i))

\* the sums are reduced by >>> 0 before they are compared with 0xFFFFFFFF: every
\* accepted call returns a list, and a sum past 2^32 - 1 comes back less 2^32
SplitReducesModulo ==
    SplitAccepted
        => /\ res.ok
           /\ Len(res.val) = SplitCount
           /\ \A i \in 0..(SplitCount - 1) :
                 res.val[i + 1] = Dotted(JsUshr(SplitSum(i), 0))

\* no call of splitSubnet ends with the overflow error
SplitNeverReportsOverflow ==
    op = "splitSubnet" => res.err.msg /= "Address space overflow"

\* a call whose last sum is 2^32 returns 0.0.0.0 as its last address
SplitPastTheEnd ==
    (/\ op = "splitSubnet"
     /\ args = << Dotted(MAX_U32), 31, 32 >>)
        => res = Ret(<< Dotted(MAX_U32), Dotted(Lit(0)) >>)

====
